---- MODULE Spec2Model ----
(***************************************************************************)
(* A model of sql-mcp: the query authorizer and the identifier codec       *)
(* (src/utils/validation.ts), the connection manager                       *)
(* (src/state/connection-manager.ts), the two database adapters            *)
(* (src/adapters/postgres.ts, src/adapters/mssql.ts) and the execute-query *)
(* tool handler (src/tools/index.ts).                                      *)
(*                                                                         *)
(* SQL text is modelled as TLA+ strings; a character is a string of length *)
(* one, read with SubSeq.  Regular expressions of the source are written   *)
(* as position-based matchers over those characters.  A character is a     *)
(* UTF-16 code unit, as in JavaScript; a string written in a module can    *)
(* hold the ASCII characters and the code units U+xx80 to U+xxFF.          *)
(***************************************************************************)
EXTENDS Integers, Sequences, FiniteSets, TLC

\* A value of a type that admits null or undefined is a record: null,
\* undefined, a string (whatever it says), or an object by its properties.
NULL == [null |-> TRUE]
Undefined == [undefined |-> TRUE]
Str(s) == [string |-> s]

(***************************************************************************)
(* Characters and strings                                                  *)
(***************************************************************************)

\* The character of s at position i ("" outside the string).
Ch(s, i) == IF i >= 1 /\ i <= Len(s) THEN SubSeq(s, i, i) ELSE ""

UpperLetters == "ABCDEFGHIJKLMNOPQRSTUVWXYZ"
LowerLetters == "abcdefghijklmnopqrstuvwxyz"
Digits == "0123456789"

CharsOf(s) == {Ch(s, i) : i \in 1..Len(s)}

\* U+000B, U+00A0, U+1680 and U+FEFF, written as the characters themselves
UnescapedSpaces == "  ﻿"

\* \s of a JavaScript regular expression, and what String.trim() strips.  A
\* string of a module holds the ASCII characters and the code units U+xx80
\* to U+xxFF; the other white space of JavaScript (U+2000 to U+200A, U+2028,
\* U+2029, U+202F, U+205F, U+3000) cannot be written in one, so that no
\* statement of the model holds it.
IsSpace(c) == c \in {" ", "\t", "\n", "\r", "\f"} \cup CharsOf(UnescapedSpaces)

\* \w of a JavaScript regular expression.
WordChars == CharsOf(UpperLetters) \cup CharsOf(LowerLetters)
                 \cup CharsOf(Digits) \cup {"_"}
IsWord(c) == c \in WordChars

\* String.prototype.startsWith / includes
startsWith(s, p) == Len(p) <= Len(s) /\ SubSeq(s, 1, Len(p)) = p
includes(s, p) == \E i \in 1..(Len(s) + 1) :
                      i + Len(p) - 1 <= Len(s) /\ SubSeq(s, i, i + Len(p) - 1) = p

\* The capital of an ASCII small letter
CapitalOf == [c \in CharsOf(LowerLetters) |->
                 Ch(UpperLetters, CHOOSE i \in 1..26 : Ch(LowerLetters, i) = c)]

\* text.toUpperCase().startsWith(lit) (anywhere = FALSE) and
\* text.toUpperCase().includes(lit) (anywhere = TRUE), for a text lit of ASCII
\* characters.  Of the characters a module can hold, those whose capital
\* holds an ASCII character are a to z, the sharp s ("SS") and U+01F0,
\* U+1E96 to U+1E9A (an ASCII capital and a mark); the capital of any other
\* holds none, and the character itself stands for what is not ASCII.
UpperCaseHolds(text, lit, anywhere) ==
    LET marked == "ǰẖẗẘẙẚ"
        capital(c) ==
            CASE c \in DOMAIN CapitalOf -> CapitalOf[c]
              [] c = "ß" -> "SS"
              [] c \in CharsOf(marked) ->
                   Ch("JHTWYA", CHOOSE i \in 1..6 : Ch(marked, i) = c) \o c
              [] OTHER -> c
        RECURSIVE upper(_)
        upper(t) == IF t = "" THEN ""
                    ELSE capital(Ch(t, 1)) \o upper(SubSeq(t, 2, Len(t)))
    IN  IF anywhere THEN includes(upper(text), lit)
        ELSE startsWith(upper(text), lit)

\* String.prototype.trim
trim(s) ==
    LET keep == {i \in 1..Len(s) : ~IsSpace(Ch(s, i))}
    IN  IF keep = {} THEN ""
        ELSE SubSeq(s, CHOOSE i \in keep : \A j \in keep : i <= j,
                       CHOOSE i \in keep : \A j \in keep : i >= j)

(***************************************************************************)
(* Regular-expression pieces                                               *)
(***************************************************************************)

\* \s* from position i: the first position at or after i holding no space.
SkipSpaces(s, i) ==
    CHOOSE j \in i..(Len(s) + 1) :
        /\ \A k \in i..(j - 1) : IsSpace(Ch(s, k))
        /\ ~IsSpace(Ch(s, j))

\* The literal lit (ASCII, given in upper case) at position i, under the i
\* flag: a letter of the pattern matches its capital and its small letter,
\* and no character beyond ASCII matches an ASCII one.
LitAt(s, i, lit) ==
    /\ i >= 1
    /\ i + Len(lit) - 1 <= Len(s)
    /\ \A k \in 1..Len(lit) :
           LET c == Ch(s, i + k - 1)
           IN  (IF c \in DOMAIN CapitalOf THEN CapitalOf[c] ELSE c) = Ch(lit, k)

\* /^\s*KW\s+/i
PrefixPattern(s, kw) ==
    LET i == SkipSpaces(s, 1)
    IN  LitAt(s, i, kw) /\ IsSpace(Ch(s, i + Len(kw)))

\* /^\s*WITH\s+[\w\s,]+\s+AS\s*\(/i : between WITH and AS lies a run of at
\* least three characters of [\w\s,] that starts and ends with a space.
WithPattern(s) ==
    LET i == SkipSpaces(s, 1)
        a == i + 4
    IN  /\ LitAt(s, i, "WITH")
        /\ \E p \in (a + 3)..Len(s) :
              /\ \A k \in a..(p - 1) :
                     IsWord(Ch(s, k)) \/ IsSpace(Ch(s, k)) \/ Ch(s, k) = ","
              /\ IsSpace(Ch(s, a))
              /\ IsSpace(Ch(s, p - 1))
              /\ LitAt(s, p, "AS")
              /\ Ch(s, SkipSpaces(s, p + 2)) = "("

\* /;\s*KW\s+/i anywhere in s
SeparatorPattern(s, kw) ==
    \E i \in 1..Len(s) :
        /\ Ch(s, i) = ";"
        /\ LET j == SkipSpaces(s, i + 1)
           IN  LitAt(s, j, kw) /\ IsSpace(Ch(s, j + Len(kw)))

\* /;\s*EXEC\s*\(/i anywhere in s
SeparatorExecPattern(s) ==
    \E i \in 1..Len(s) :
        /\ Ch(s, i) = ";"
        /\ LET j == SkipSpaces(s, i + 1)
           IN  LitAt(s, j, "EXEC") /\ Ch(s, SkipSpaces(s, j + 4)) = "("

\* /lit/i anywhere in s
ContainsPattern(s, lit) == \E i \in 1..Len(s) : LitAt(s, i, lit)

(***************************************************************************)
(* The query authorizer                                                    *)
(***************************************************************************)

SafeKeywords == {"SELECT", "EXPLAIN", "SHOW", "DESCRIBE", "DESC"}
WriteKeywords == {"INSERT", "UPDATE", "DELETE", "MERGE"}
DdlKeywords == {"CREATE", "ALTER", "DROP", "TRUNCATE", "GRANT", "REVOKE",
                "EXEC", "EXECUTE"}
InjectionKeywords == {"DROP", "DELETE", "TRUNCATE", "UPDATE", "INSERT",
                      "ALTER", "CREATE"}
DangerousProcedures == {"XP_CMDSHELL", "SP_EXECUTESQL"}

\* SAFE_PATTERNS with an INSERT pattern among them
SafePatternsWithInsert(s) ==
    \/ \E kw \in SafeKeywords \cup {"INSERT"} : PrefixPattern(s, kw)
    \/ WithPattern(s)

\* matchesAnyPattern(sql, SAFE_PATTERNS)
SAFE_PATTERNS(s) ==
    \/ \E kw \in SafeKeywords : PrefixPattern(s, kw)
    \/ WithPattern(s)

\* WRITE_PATTERNS without the MERGE pattern
WritePatternsWithoutMerge(s) ==
    \E kw \in WriteKeywords \ {"MERGE"} : PrefixPattern(s, kw)

\* matchesAnyPattern(sql, WRITE_PATTERNS)
WRITE_PATTERNS(s) == \E kw \in WriteKeywords : PrefixPattern(s, kw)

\* matchesAnyPattern(sql, DDL_PATTERNS)
DDL_PATTERNS(s) == \E kw \in DdlKeywords : PrefixPattern(s, kw)

\* matchesAnyPattern(sql, INJECTION_PATTERNS)
INJECTION_PATTERNS(s) ==
    \/ \E kw \in InjectionKeywords : SeparatorPattern(s, kw)
    \/ SeparatorExecPattern(s)
    \/ \E p \in DangerousProcedures : ContainsPattern(s, p)

QueryModes == {"safe", "write", "full"}

Ok == [kind |-> "ok", message |-> ""]
Thrown(kind, message) == [kind |-> kind, message |-> message]

MsgEmpty == "Query cannot be empty"
MsgInjection == "Query contains potentially dangerous patterns. Multi-statement queries are not allowed in this mode."
MsgSafe == "Only SELECT queries are allowed in safe mode. Set SQL_MCP_MODE=write or SQL_MCP_MODE=full to allow data modifications."
MsgDdl == "DDL operations (CREATE, ALTER, DROP) are not allowed in write mode. Set SQL_MCP_MODE=full to allow schema modifications."
MsgWrite == "This operation is not allowed in write mode. Only SELECT, INSERT, UPDATE, DELETE are permitted."

\* validateQuery with the injection scan run in every mode
validateQueryScanningFull(sql, mode) ==
    LET trimmed == trim(sql)
        isSafeOperation == SAFE_PATTERNS(trimmed)
        isWriteOperation == WRITE_PATTERNS(trimmed)
    IN  IF trimmed = "" THEN Thrown("ValidationError", MsgEmpty)
        ELSE IF INJECTION_PATTERNS(sql)
             THEN Thrown("ValidationError", MsgInjection)
        ELSE IF mode = "full" THEN Ok
        ELSE IF mode = "safe"
             THEN IF ~isSafeOperation THEN Thrown("PermissionError", MsgSafe) ELSE Ok
        ELSE IF mode = "write" /\ ~isSafeOperation /\ ~isWriteOperation
             THEN IF DDL_PATTERNS(trimmed)
                  THEN Thrown("PermissionError", MsgDdl)
                  ELSE Thrown("PermissionError", MsgWrite)
        ELSE Ok

\* validateQuery testing the statement for emptiness before trimming it
validateQueryUntrimmed(sql, mode) ==
    LET trimmed == trim(sql)
        isSafeOperation == SAFE_PATTERNS(trimmed)
        isWriteOperation == WRITE_PATTERNS(trimmed)
    IN  IF sql = "" THEN Thrown("ValidationError", MsgEmpty)
        ELSE IF mode # "full" /\ INJECTION_PATTERNS(sql)
             THEN Thrown("ValidationError", MsgInjection)
        ELSE IF mode = "full" THEN Ok
        ELSE IF mode = "safe"
             THEN IF ~isSafeOperation THEN Thrown("PermissionError", MsgSafe) ELSE Ok
        ELSE IF mode = "write" /\ ~isSafeOperation /\ ~isWriteOperation
             THEN IF DDL_PATTERNS(trimmed)
                  THEN Thrown("PermissionError", MsgDdl)
                  ELSE Thrown("PermissionError", MsgWrite)
        ELSE Ok

\* validateQuery whose write mode tests only the write patterns
validateQueryWriteOnly(sql, mode) ==
    LET trimmed == trim(sql)
        isSafeOperation == SAFE_PATTERNS(trimmed)
        isWriteOperation == WRITE_PATTERNS(trimmed)
    IN  IF trimmed = "" THEN Thrown("ValidationError", MsgEmpty)
        ELSE IF mode # "full" /\ INJECTION_PATTERNS(sql)
             THEN Thrown("ValidationError", MsgInjection)
        ELSE IF mode = "full" THEN Ok
        ELSE IF mode = "safe"
             THEN IF ~isSafeOperation THEN Thrown("PermissionError", MsgSafe) ELSE Ok
        ELSE IF mode = "write" /\ ~isWriteOperation
             THEN IF DDL_PATTERNS(trimmed)
                  THEN Thrown("PermissionError", MsgDdl)
                  ELSE Thrown("PermissionError", MsgWrite)
        ELSE Ok

\* validateQuery(sql, mode): Ok when it returns, otherwise what it throws.
validateQuery(sql, mode) ==
    LET trimmed == trim(sql)
        isSafeOperation == SAFE_PATTERNS(trimmed)
        isWriteOperation == WRITE_PATTERNS(trimmed)
    IN  IF trimmed = "" THEN Thrown("ValidationError", MsgEmpty)
        ELSE IF mode # "full" /\ INJECTION_PATTERNS(sql)
             THEN Thrown("ValidationError", MsgInjection)
        ELSE IF mode = "full" THEN Ok
        ELSE IF mode = "safe"
             THEN IF ~isSafeOperation THEN Thrown("PermissionError", MsgSafe) ELSE Ok
        ELSE IF mode = "write" /\ ~isSafeOperation /\ ~isWriteOperation
             THEN IF DDL_PATTERNS(trimmed)
                  THEN Thrown("PermissionError", MsgDdl)
                  ELSE Thrown("PermissionError", MsgWrite)
        ELSE Ok

(***************************************************************************)
(* Configuration (parseQueryMode, loadConfig, getConfig)                   *)
(***************************************************************************)

\* parseQueryMode comparing the setting as it was written
parseQueryModeExact(value) ==
    IF value = Str("write") \/ value = Str("full") THEN value.string
    ELSE "safe"

\* parseQueryMode(value).  mode(word): value?.toLowerCase() is the word; of
\* the characters a module can hold, only the capital of an ASCII letter
\* becomes that letter in lower case.
parseQueryMode(value) ==
    LET mode(word) ==
            /\ value # Undefined
            /\ Len(value.string) = Len(word)
            /\ \A i \in 1..Len(word) :
                   Ch(value.string, i) \in {Ch(word, i), CapitalOf[Ch(word, i)]}
    IN  IF mode("write") THEN "write" ELSE IF mode("full") THEN "full"
        ELSE "safe"

\* loadConfig(), reading process.env.SQL_MCP_MODE
loadConfig(environment) == [queryMode |-> parseQueryMode(environment)]

(***************************************************************************)
(* Row-limit rewrite of the adapters' executeQuery                         *)
(***************************************************************************)

DefaultLimit == 100

\* query.replace(/^(\s*SELECT\s+)/i, `$1TOP ${limit} `)
InsertTop(query, limit) ==
    LET i == SkipSpaces(query, 1)
        j == SkipSpaces(query, i + 6)
    IN  IF LitAt(query, i, "SELECT") /\ j > i + 6
        THEN SubSeq(query, 1, j - 1) \o "TOP " \o ToString(limit) \o " "
                 \o SubSeq(query, j, Len(query))
        ELSE query

\* MssqlAdapter.executeQuery: the statement handed to the driver
MssqlModifiedQuery(query, limit) ==
    LET trimmedQuery == trim(query)
    IN  IF /\ UpperCaseHolds(trimmedQuery, "SELECT", FALSE)
           /\ ~UpperCaseHolds(trimmedQuery, " TOP ", TRUE)
           /\ ~UpperCaseHolds(trimmedQuery, " OFFSET ", TRUE)
        THEN InsertTop(query, limit)
        ELSE query

\* s.replace(/;?\s*$/, '') on a trimmed string: drops one final semicolon
StripFinalSemicolon(s) ==
    IF Ch(s, Len(s)) = ";" THEN SubSeq(s, 1, Len(s) - 1) ELSE s

\* PostgresAdapter.executeQuery appending LIMIT to whatever has none
PostgresModifiedQueryAnyStatement(query, limit) ==
    IF ~UpperCaseHolds(trim(query), " LIMIT ", TRUE)
    THEN StripFinalSemicolon(trim(query)) \o " LIMIT " \o ToString(limit)
    ELSE query

\* PostgresAdapter.executeQuery: the statement handed to the driver
PostgresModifiedQuery(query, limit) ==
    LET trimmedQuery == trim(query)
    IN  IF /\ UpperCaseHolds(trimmedQuery, "SELECT", FALSE)
           /\ ~UpperCaseHolds(trimmedQuery, " LIMIT ", TRUE)
        THEN StripFinalSemicolon(trim(query)) \o " LIMIT " \o ToString(limit)
        ELSE query

ModifiedQuery(engine, query, limit) ==
    IF engine = "mssql" THEN MssqlModifiedQuery(query, limit)
    ELSE PostgresModifiedQuery(query, limit)

(***************************************************************************)
(* QueryResult shaping of the adapters' executeQuery.  An optional number  *)
(* (null or undefined against a count) is the empty sequence or <<n>>; a   *)
(* row is a sequence of <<column, value>> pairs in the driver's key order. *)
(***************************************************************************)

\* result.rowsAffected?.[0]
FirstOf(counts) == IF Len(counts) > 0 THEN <<counts[1]>> ELSE <<>>

\* Object.keys(row)
ObjectKeys(row) == [i \in 1..Len(row) |-> row[i][1]]

\* result.fields.map(field => field.name)
FieldNames(fields) == [i \in 1..Len(fields) |-> fields[i].name]

\* MssqlAdapter.executeQuery: the QueryResult made of the driver's result
MssqlQueryResult(result) ==
    IF result.hasRecordset /\ Len(result.recordset) > 0
    THEN [columns |-> ObjectKeys(result.recordset[1]),
          rows |-> result.recordset,
          rowCount |-> Len(result.recordset),
          affectedRows |-> FirstOf(result.rowsAffected)]
    ELSE [columns |-> <<>>, rows |-> <<>>, rowCount |-> 0,
          affectedRows |-> FirstOf(result.rowsAffected)]

\* PostgresAdapter.executeQuery: the QueryResult made of the driver's result
PostgresQueryResult(result) ==
    IF Len(result.rows) > 0
    THEN [columns |-> FieldNames(result.fields),
          rows |-> result.rows,
          rowCount |-> Len(result.rows),
          affectedRows |-> result.rowCount]
    ELSE [columns |-> FieldNames(result.fields),
          rows |-> result.rows,
          rowCount |-> Len(result.rows),
          affectedRows |-> result.rowCount]

QueryResultOf(engine, result) ==
    IF engine = "mssql" THEN MssqlQueryResult(result)
    ELSE PostgresQueryResult(result)

(***************************************************************************)
(* The identifier codec                                                    *)
(***************************************************************************)

Returned(value) == [kind |-> "ok", value |-> value]

\* identifier.replace(/^\[|\]$|^"|"$|^'|'$/g, ''): one opening delimiter at
\* the start and one closing delimiter at the end are removed, each whether
\* or not the other is there; a lone "]" is removed as the end.
StripDelimiters(identifier) ==
    LET from == IF Ch(identifier, 1) \in {"[", "\"", "'"} THEN 2 ELSE 1
        to == IF /\ Len(identifier) >= from
                 /\ Ch(identifier, Len(identifier)) \in {"]", "\"", "'"}
              THEN Len(identifier) - 1
              ELSE Len(identifier)
    IN  SubSeq(identifier, from, to)

\* /^[\w][\w.]*$/i
IdentifierPattern(s) ==
    /\ Len(s) >= 1
    /\ IsWord(Ch(s, 1))
    /\ \A k \in 2..Len(s) : IsWord(Ch(s, k)) \/ Ch(s, k) = "."

sanitizeIdentifier(identifier) ==
    LET cleaned == StripDelimiters(identifier)
    IN  IF ~IdentifierPattern(cleaned)
        THEN Thrown("ValidationError", "Invalid identifier: " \o identifier)
        ELSE Returned(cleaned)

\* String.prototype.split('.') and Array.prototype.join('.')
RECURSIVE split(_, _)
split(s, sep) ==
    IF ~includes(s, sep) \/ s = "" THEN <<s>>
    ELSE LET i == CHOOSE p \in 1..Len(s) :
                      /\ Ch(s, p) = sep
                      /\ \A q \in 1..(p - 1) : Ch(s, q) # sep
         IN  <<SubSeq(s, 1, i - 1)>> \o split(SubSeq(s, i + 1, Len(s)), sep)

RECURSIVE join(_, _)
join(parts, sep) ==
    IF Len(parts) = 0 THEN ""
    ELSE IF Len(parts) = 1 THEN parts[1]
    ELSE parts[1] \o sep \o join(Tail(parts), sep)

\* `[${part}]` for mssql, `"${part}"` otherwise
Quote(part, engine) ==
    IF engine = "mssql" THEN "[" \o part \o "]" ELSE "\"" \o part \o "\""

\* escapeIdentifier quoting the identifier as a whole
escapeIdentifierWhole(identifier, engine) ==
    LET sanitized == sanitizeIdentifier(identifier)
    IN  IF sanitized.kind # "ok" THEN sanitized
        ELSE Returned(Quote(sanitized.value, engine))

escapeIdentifier(identifier, engine) ==
    LET sanitized == sanitizeIdentifier(identifier)
    IN  IF sanitized.kind # "ok" THEN sanitized
        ELSE IF includes(sanitized.value, ".")
        THEN LET parts == split(sanitized.value, ".")
             IN  Returned(join([i \in 1..Len(parts) |-> Quote(parts[i], engine)],
                               "."))
        ELSE Returned(Quote(sanitized.value, engine))

(***************************************************************************)
(* State                                                                   *)
(***************************************************************************)

VARIABLES
    adapter,         \* ConnectionManager.adapter: an adapter id, 0 for null
    serverAddress,   \* ConnectionManager.serverAddress
    adapters,        \* the adapter instances created so far, by id
    pools,           \* the driver pools created so far, by id
    calls,           \* the calls made so far: position, locals, result
    environment,     \* process.env.SQL_MCP_MODE
    configInstance,  \* the lazily loaded AppConfig, NULL before
    typed,           \* the fragments of the text given to a function
    outcome,         \* what validateQuery did with the statement, per mode
    execution,       \* an adapter's executeQuery on the statement
    identifier       \* what the identifier codec did with the identifier

managerVars == <<adapter, serverAddress, adapters, pools, calls, environment,
                 configInstance>>
validateVars == <<typed, outcome>>
vars == <<adapter, serverAddress, adapters, pools, calls, environment,
          configInstance, typed, outcome, execution, identifier>>

\* Calls ever made.  The adapter and the pool a call creates carry its id:
\* a call creates at most one of each.
MaxCalls == 3
CallIds == 1..MaxCalls

Engines == {"mssql", "postgres"}
Servers == {"s1", "s2"}
Configs == {[engine |-> "mssql", server |-> "s1", database |-> Str("db1")],
            [engine |-> "postgres", server |-> "s2", database |-> Undefined],
            [engine |-> "mysql", server |-> "s1", database |-> Str("db1")]}
SwitchTargets == {"db2"}
EnvironmentValues == {Undefined, Str("Full")}
Queries == {"", "SELECT 1", "UPDATE t SET a = 1", "SELECT 1; DROP TABLE t"}

\* The ConnectionState of a manager with no live session
Disconnected ==
    [isConnected |-> FALSE, engine |-> NULL, database |-> NULL, server |-> NULL]

\* new MssqlAdapter() / new PostgresAdapter()
NewAdapter(engine) ==
    [engine |-> engine, isConnected |-> FALSE, currentDatabase |-> NULL,
     config |-> NULL, pool |-> 0]
NoAdapter == NewAdapter("none")

(***************************************************************************)
(* Errors and promises                                                     *)
(***************************************************************************)

\* The code property of an error, by class; an Error that is no
\* DatabaseError has none.
ErrorCode(class) ==
    CASE class = "ConnectionError" -> Str("CONNECTION_ERROR")
      [] class = "QueryError" -> Str("QUERY_ERROR")
      [] class = "ValidationError" -> Str("VALIDATION_ERROR")
      [] class = "PermissionError" -> Str("PERMISSION_ERROR")
      [] class = "NotConnectedError" -> Str("NOT_CONNECTED")
      [] OTHER -> Undefined

\* An Error object: name, message, and the code and originalError of a
\* DatabaseError (<<>> for an originalError that is undefined)
ErrorOf(name, message, originalError) ==
    [name |-> name, message |-> message, code |-> ErrorCode(name),
     originalError |-> originalError]

\* error instanceof Error: a thrown value that is no Error is a string
IsError(error) == "message" \in DOMAIN error

\* error instanceof Error ? error.message : String(error)
MessageOf(error) == IF IsError(error) THEN error.message ELSE error.string

\* error instanceof Error ? error : undefined
OriginalOf(error) == IF IsError(error) THEN <<error>> ELSE <<>>

\* The class of what was thrown
NameOf(error) == IF IsError(error) THEN error.name ELSE "string"

\* new NotConnectedError()
NotConnectedError ==
    ErrorOf("NotConnectedError",
            "Not connected to database. Use connect-database first.", <<>>)

\* What the driver rejects a promise with: an Error of its own, or a value
\* that is no Error
DriverFailures ==
    {ErrorOf("DriverError", "driver message", <<>>), Str("driver text")}

\* this.pool!.query(...) / this.pool!.request() on a pool that is null: the
\* TypeError of the engine that runs the program
NullPoolError(engine) ==
    ErrorOf("TypeError",
            "Cannot read properties of null (reading '"
                \o (IF engine = "mssql" THEN "request" ELSE "query") \o "')",
            <<>>)

\* A promise: pending, fulfilled, or rejected with a reason
Pending == [state |-> "pending"]
Fulfilled == [state |-> "fulfilled"]
Rejected(reason) == [state |-> "rejected", reason |-> reason]

\* What an awaited promise gave: "ok", or the class of what it threw
Outcome(value) ==
    IF value.state = "rejected" THEN NameOf(value.reason)
    ELSE IF value.state = "fulfilled" THEN "ok" ELSE "none"

\* The ways the driver settles a promise
DriverOutcomes == {Fulfilled} \cup {Rejected(f) : f \in DriverFailures}

(***************************************************************************)
(* Calls.  A call is one invocation from outside: of a method of the       *)
(* connection manager or of an adapter, of a tool handler, or of a handler *)
(* of process termination.  Its stack holds the async functions that are   *)
(* suspended at an await, innermost first; value is the promise the        *)
(* innermost one awaits.                                                   *)
(***************************************************************************)

\* What a tool handler has not returned yet
NoResponse ==
    [returned |-> FALSE, isError |-> FALSE, success |-> FALSE, error |-> "",
     data |-> <<>>]

NoCall ==
    [op |-> "none", pc |-> "idle", stack |-> <<>>, value |-> Pending,
     this |-> 0, pool |-> 0, cfg |-> NULL, arg |-> "", limit |-> Undefined,
     result |-> "none", live |-> FALSE, prev |-> 0, before |-> Disconnected,
     created |-> 0, stored |-> NULL, validated |-> "none", mode |-> "none",
     ops |-> <<>>, sent |-> "", response |-> NoResponse]

\* The state a step works on, and what it hands back with the call's record.
World == [adapter |-> adapter, serverAddress |-> serverAddress,
          adapters |-> adapters, pools |-> pools]
Step(w, cl) == [w |-> w, call |-> cl]

\* The call invokes adapter a's method m; this is the adapter whose method
\* the call is in.
Invoke(cl, a, m) == [cl EXCEPT !.ops = Append(@, <<m, a>>), !.this = a]

\* The adapter method the call invoked last
Method(cl) == cl.ops[Len(cl.ops)][1]

\* An async function suspends at an await: its frame goes on the stack
Push(cl, frame) == [cl EXCEPT !.stack = <<frame>> \o @]

\* The frame that resumes leaves the stack
Pop(cl) == [cl EXCEPT !.stack = Tail(@)]

\* The promise that the frame on top of the stack awaits is settled: the
\* async function it awaited has returned or thrown, or the driver has
\* settled its promise.  The frame resumes in a later step.
Settle(cl, value) == [cl EXCEPT !.pc = "settled", !.value = value]

\* The frame awaits a promise of the driver for adapter a: pool.connect() or
\* sql.connect() (pc "connecting"), pool.end() or pool.close()
\* ("disconnecting"), a statement ("querying")
AwaitDriver(cl, frame, pc, a, pool) ==
    [Push(cl, frame) EXCEPT !.pc = pc, !.value = Pending, !.this = a,
                            !.pool = pool]

IsLive(w) == w.adapter # 0 /\ w.adapters[w.adapter].isConnected

(***************************************************************************)
(* Adapters                                                                *)
(***************************************************************************)

\* createAdapter(engine): FALSE when it throws "Unsupported database engine"
createAdapterOk(engine) == engine \in Engines

\* getDefaultPort() is not modelled; the database the adapter reports when
\* the config names none
DefaultDatabase(engine) == IF engine = "mssql" THEN "master" ELSE "postgres"

\* disconnect(), after pool.end() / pool.close() has resolved, and all of it
\* when there is no pool
ResetAdapter(ad) ==
    [ad EXCEPT !.pool = 0, !.isConnected = FALSE, !.currentDatabase = NULL,
               !.config = NULL]

\* validateConnected() that never throws
validateConnectedSkipped(ad) == TRUE

\* validateConnected() returns (TRUE) or throws NotConnectedError (FALSE)
validateConnectedOk(ad) == ad.isConnected

\* new ConnectionError(`Failed to connect to <engine> server: ${error
\* instanceof Error ? error.message : String(error)}`, error instanceof
\* Error ? error : undefined) in the catch block of connect
ConnectionErrorOf(engine, error) ==
    ErrorOf("ConnectionError",
            "Failed to connect to "
                \o (IF engine = "mssql" THEN "MSSQL" ELSE "PostgreSQL")
                \o " server: " \o MessageOf(error),
            OriginalOf(error))

\* new QueryError with a fixed message and no originalError
QueryErrorSwallowed(engine, op, arg, error) ==
    ErrorOf("QueryError", "Query failed", <<>>)

\* new QueryError(`<what failed>: ${error instanceof Error ? error.message :
\* String(error)}`, error instanceof Error ? error : undefined) in the catch
\* block of method op
QueryErrorOf(engine, op, arg, error) ==
    LET what == CASE op = "switchDatabase" ->
                       "Failed to switch to database '" \o arg \o "'"
                  [] op = "listDatabases" -> "Failed to list databases"
                  [] op = "listTables" -> "Failed to list tables"
                  [] op = "describeTable" ->
                       "Failed to describe table '"
                           \o (IF engine = "mssql" THEN "dbo" ELSE "public")
                           \o "." \o arg \o "'"
                  [] OTHER -> "Query execution failed"
    IN  ErrorOf("QueryError", what \o ": " \o MessageOf(error),
                OriginalOf(error))

\* connect(config) up to its await: PostgresAdapter constructs its pool and
\* waits for a client, MssqlAdapter waits for sql.connect
AdapterConnectBegin(w, cl, c, a, cfg) ==
    LET cl1 == [Invoke(cl, a, "connect") EXCEPT !.cfg = cfg]
    IN  IF w.adapters[a].engine = "postgres"
        THEN Step([w EXCEPT !.pools[c] = "created", !.adapters[a].pool = c],
                  AwaitDriver(cl1, "adapter.connect", "connecting", a, c))
        ELSE Step(w, AwaitDriver(cl1, "adapter.connect", "connecting", a, 0))

\* connect(config) from its await on: the fields are set, MssqlAdapter
\* taking the pool that sql.connect resolved with, or the catch block throws
\* ConnectionError
AdapterConnectEnd(w, cl, c) ==
    LET a == cl.this
        ad == w.adapters[a]
        db == IF cl.cfg.database = Undefined
              THEN Str(DefaultDatabase(ad.engine))
              ELSE cl.cfg.database
        set == [ad EXCEPT !.isConnected = TRUE, !.currentDatabase = db,
                          !.config = cl.cfg]
    IN  IF cl.value.state = "rejected"
        THEN Step(w, Settle(Pop(cl),
                            Rejected(ConnectionErrorOf(ad.engine,
                                                       cl.value.reason))))
        ELSE IF ad.engine = "postgres"
        THEN Step([w EXCEPT !.adapters[a] = set], Settle(Pop(cl), Fulfilled))
        ELSE Step([w EXCEPT !.adapters[a] = [set EXCEPT !.pool = c],
                            !.pools[c] = "open"],
                  Settle(Pop(cl), Fulfilled))

\* { ...this._config, database }
SpreadConfig(config, database) ==
    IF config = NULL THEN [database |-> Str(database)]
    ELSE [config EXCEPT !.database = Str(database)]

\* disconnect() of adapter a up to its await of pool.end() / pool.close();
\* with no pool the fields are reset and it returns
AdapterDisconnectBegin(w, cl, a) ==
    LET cl1 == Invoke(cl, a, "disconnect")
    IN  IF w.adapters[a].pool # 0
        THEN Step(w, AwaitDriver(cl1, "adapter.disconnect", "disconnecting",
                                 a, w.adapters[a].pool))
        ELSE Step([w EXCEPT !.adapters[a] = ResetAdapter(@)],
                  Settle(cl1, Fulfilled))

\* disconnect() from its await on: this.pool = null and the fields are
\* reset, or what the driver threw leaves the method
AdapterDisconnectEnd(w, cl) ==
    IF cl.value.state = "rejected" THEN Step(w, Settle(Pop(cl), cl.value))
    ELSE Step([w EXCEPT !.adapters[cl.this] = ResetAdapter(@)],
              Settle(Pop(cl), Fulfilled))

\* switchDatabase(database) reconnecting on either engine
AdapterSwitchBeginReconnect(w, cl, c, a, database) ==
    LET ad == w.adapters[a]
        cl1 == Invoke(cl, a, "switchDatabase")
    IN  IF ~validateConnectedOk(ad)
        THEN Step(w, Settle(cl1, Rejected(NotConnectedError)))
        ELSE AdapterDisconnectBegin(
                 w, Push(cl1, "adapter.switchDatabase:disconnect"), a)

\* switchDatabase(database) of adapter a up to its first await: of
\* this.disconnect() in PostgresAdapter, of the USE statement in
\* MssqlAdapter
AdapterSwitchBegin(w, cl, c, a, database) ==
    LET ad == w.adapters[a]
        cl1 == Invoke(cl, a, "switchDatabase")
    IN  IF ~validateConnectedOk(ad)
        THEN Step(w, Settle(cl1, Rejected(NotConnectedError)))
        ELSE IF ad.engine = "postgres"
        THEN IF ad.config = NULL
             THEN Step(w, Settle(cl1, Rejected(
                      ErrorOf("ConnectionError",
                              "No connection configuration available",
                              <<>>))))
             ELSE AdapterDisconnectBegin(
                      w, Push(cl1, "adapter.switchDatabase:disconnect"), a)
        ELSE IF ad.pool = 0
             THEN Step(w, Settle(cl1, Rejected(
                      QueryErrorOf(ad.engine, "switchDatabase", database,
                                   NullPoolError(ad.engine)))))
             ELSE Step(w, [AwaitDriver(cl1, "adapter.switchDatabase",
                                       "querying", a, ad.pool)
                              EXCEPT !.sent = "USE [" \o database \o "]"])

\* PostgresAdapter.switchDatabase from `await this.disconnect()` on:
\* this.connect({ ...this._config, database }) up to its await
AdapterSwitchReconnect(w, cl, c) ==
    IF cl.value.state = "rejected" THEN Step(w, Settle(Pop(cl), cl.value))
    ELSE AdapterConnectBegin(
             w, Push(Pop(cl), "adapter.switchDatabase:connect"), c, cl.this,
             SpreadConfig(w.adapters[cl.this].config, cl.arg))

\* MssqlAdapter.switchDatabase from its await of the USE statement on
AdapterSwitchEnd(w, cl) ==
    LET a == cl.this
    IN  IF cl.value.state = "rejected"
        THEN Step(w, Settle(Pop(cl), Rejected(
                 QueryErrorOf(w.adapters[a].engine, "switchDatabase", cl.arg,
                              cl.value.reason))))
        ELSE Step([w EXCEPT !.adapters[a].currentDatabase = Str(cl.arg)],
                  Settle(Pop(cl), Fulfilled))

\* listDatabases(), listTables(), describeTable(), executeQuery(sql, limit)
\* of adapter a up to the await of the statement
AdapterQueryBegin(w, cl, a, op, query, limit) ==
    LET ad == w.adapters[a]
        cl1 == Invoke(cl, a, op)
        statement == IF op = "executeQuery"
                     THEN ModifiedQuery(ad.engine, query, limit)
                     ELSE "<" \o op \o ">"
    IN  IF ~validateConnectedOk(ad)
        THEN Step(w, Settle(cl1, Rejected(NotConnectedError)))
        ELSE IF ad.pool = 0
        THEN Step(w, Settle(cl1, Rejected(
                 QueryErrorOf(ad.engine, op, query, NullPoolError(ad.engine)))))
        ELSE Step(w, [AwaitDriver(cl1, "adapter.query", "querying", a,
                                  ad.pool)
                         EXCEPT !.sent = statement])

\* listDatabases(), listTables(), describeTable(), executeQuery() from the
\* await of the statement on: the result is returned, or the catch block
\* throws QueryError
AdapterQueryEnd(w, cl) ==
    IF cl.value.state = "rejected"
    THEN Step(w, Settle(Pop(cl), Rejected(
             QueryErrorOf(w.adapters[cl.this].engine, Method(cl), cl.arg,
                          cl.value.reason))))
    ELSE Step(w, Settle(Pop(cl), Fulfilled))

(***************************************************************************)
(* ConnectionManager                                                       *)
(***************************************************************************)

\* getAdapter() without the isConnected test
getAdapterTracked(w) == w.adapter # 0

\* getAdapter() returns (TRUE) or throws NotConnectedError (FALSE)
getAdapterOk(w) == w.adapter # 0 /\ w.adapters[w.adapter].isConnected

\* getConnectionState()
getConnectionState(w) ==
    IF w.adapter = 0 \/ ~w.adapters[w.adapter].isConnected
    THEN Disconnected
    ELSE [isConnected |-> TRUE, engine |-> Str(w.adapters[w.adapter].engine),
          database |-> w.adapters[w.adapter].currentDatabase,
          server |-> w.serverAddress]

\* A finally block that keeps the server address
DisconnectFinallyKeepsAddress(w) == [w EXCEPT !.adapter = 0]

\* disconnect(): the finally block
DisconnectFinally(w) == [w EXCEPT !.adapter = 0, !.serverAddress = NULL]

\* disconnect() up to its await of adapter.disconnect(); with no adapter it
\* returns
DisconnectBegin(w, cl) ==
    IF w.adapter = 0 THEN Step(w, Settle(cl, Fulfilled))
    ELSE AdapterDisconnectBegin(w, Push(cl, "manager.disconnect"), w.adapter)

\* disconnect() from its await on: the finally block, after which it
\* returns, or what adapter.disconnect() threw leaves the method
DisconnectEnd(w, cl) == Step(DisconnectFinally(w), Settle(Pop(cl), cl.value))

\* new Error(`Unsupported database engine: ${engine}`)
UnsupportedEngine(engine) ==
    ErrorOf("Error", "Unsupported database engine: " \o engine, <<>>)

\* connect(config) from "Create new adapter and connect" up to its await of
\* adapter.connect(config)
ConnectCreate(w, cl, c, cfg) ==
    IF ~createAdapterOk(cfg.engine)
    THEN Step(w, Settle(cl, Rejected(UnsupportedEngine(cfg.engine))))
    ELSE AdapterConnectBegin(
             [w EXCEPT !.adapter = c, !.adapters[c] = NewAdapter(cfg.engine)],
             Push([cl EXCEPT !.created = c], "manager.connect:connect"),
             c, c, cfg)

\* connect(config) up to its first await: of this.disconnect() when the
\* tracked adapter is connected, otherwise of adapter.connect(config)
ConnectBegin(w, cl, c, cfg) ==
    IF w.adapter # 0 /\ w.adapters[w.adapter].isConnected
    THEN DisconnectBegin(w, Push(cl, "manager.connect:disconnect"))
    ELSE ConnectCreate(w, cl, c, cfg)

\* connect(config) from `await this.disconnect()` on
ConnectAfterDisconnect(w, cl, c) ==
    IF cl.value.state = "rejected" THEN Step(w, Settle(Pop(cl), cl.value))
    ELSE ConnectCreate(w, Pop(cl), c, cl.cfg)

\* connect(config) from `await this.adapter.connect(config)` on
ConnectEnd(w, cl) ==
    IF cl.value.state = "rejected" THEN Step(w, Settle(Pop(cl), cl.value))
    ELSE Step([w EXCEPT !.serverAddress = Str(cl.cfg.server)],
              Settle(Pop(cl), Fulfilled))

\* switchDatabase(database) up to its await of adapter.switchDatabase
SwitchBegin(w, cl, c, database) ==
    IF ~getAdapterOk(w) THEN Step(w, Settle(cl, Rejected(NotConnectedError)))
    ELSE AdapterSwitchBegin(w, Push(cl, "manager.switchDatabase"), c,
                            w.adapter, database)

\* switchDatabase(database) from its await on
SwitchEnd(w, cl) == Step(w, Settle(Pop(cl), cl.value))

CatalogOps == {"listDatabases", "listTables", "describeTable"}

\* listDatabases(), listTables(), describeTable(), executeQuery(sql, limit):
\* getAdapter(), then the promise of the adapter's method is returned
QueryBegin(w, cl, op, query, limit) ==
    IF ~getAdapterOk(w) THEN Step(w, Settle(cl, Rejected(NotConnectedError)))
    ELSE AdapterQueryBegin(w, cl, w.adapter, op, query, limit)

\* The code that called a method of the manager or of an adapter resumes
\* from its await of the call
CallerResumes(w, cl) ==
    Step(w, [Pop(cl) EXCEPT !.pc = "done", !.result = Outcome(cl.value)])

(***************************************************************************)
(* Configuration and the tool handlers                                     *)
(***************************************************************************)

\* getConfig reading the environment on every call
getConfigReloading(instance, env) == loadConfig(env)

\* getConfig()
getConfig(instance, env) == IF instance = NULL THEN loadConfig(env) ELSE instance

\* getModeDescription(mode)
getModeDescription(mode) ==
    CASE mode = "safe" -> "Read-only (SELECT, WITH, EXPLAIN)"
      [] mode = "write" -> "Read/Write (SELECT, INSERT, UPDATE, DELETE)"
      [] mode = "full" -> "Full access (all SQL operations including DDL)"

\* formatErrorResponse(error): isError and the JSON text's success and error
\* members; returned says that the handler returned a payload at all
formatErrorResponse(error) ==
    [returned |-> TRUE, isError |-> TRUE, success |-> FALSE,
     error |-> MessageOf(error), data |-> <<>>]

\* formatSuccessResponse(data): no isError member, success and the members
\* of data in the JSON text
formatSuccessResponse(data) ==
    [returned |-> TRUE, isError |-> FALSE, success |-> TRUE, error |-> "",
     data |-> data]

\* A number of a request: an integer, or a fraction
Number(n) == [num |-> n, den |-> 1]
Fraction(n, d) == [num |-> n, den |-> d]

\* What a ZodError says: the JSON text of its issues; the model writes the
\* members of the input that the issues name
ZodError(members) ==
    ErrorOf("ZodError", "Invalid input: " \o members, <<>>)

\* ConnectDatabaseSchema.parse: engine is one of the enum, server is
\* z.string().min(1); the optional members are not modelled
ConnectDatabaseSchemaOk(args) ==
    args.engine \in Engines /\ Len(args.server) >= 1

\* SwitchDatabaseSchema.parse: database is z.string().min(1)
SwitchDatabaseSchemaOk(database) == Len(database) >= 1

\* DescribeTableSchema.parse: tableName is z.string().min(1)
DescribeTableSchemaOk(tableName) == Len(tableName) >= 1

\* z.number().int().positive().max(1000).optional()
LimitOk(limit) ==
    \/ limit = Undefined
    \/ /\ limit.den = 1
       /\ limit.num > 0
       /\ limit.num <= 1000

\* ExecuteQuerySchema.parse: query is z.string().min(1), limit is
\* z.number().int().positive().max(1000).optional()
ExecuteQuerySchemaOk(query, limit) == Len(query) >= 1 /\ LimitOk(limit)

\* input.limit ?? 100
InputLimit(limit) == IF limit = Undefined THEN DefaultLimit ELSE limit.num

\* A handler whose catch block throws the error on
HandlerCatchRethrows(cl, error) ==
    [cl EXCEPT !.pc = "done", !.stack = <<>>, !.value = Rejected(error),
               !.result = NameOf(error)]

\* catch (error) { return formatErrorResponse(error) }
HandlerCatch(cl, error) ==
    [cl EXCEPT !.pc = "done", !.stack = <<>>, !.value = Rejected(error),
               !.result = NameOf(error),
               !.response = formatErrorResponse(error)]

\* return formatSuccessResponse(data)
HandlerReturn(cl, data) ==
    [cl EXCEPT !.pc = "done", !.stack = <<>>, !.result = "ok",
               !.response = formatSuccessResponse(data)]

\* The rows a handler gets from the manager are not modelled
Rows == <<"rows">>

\* A handler from its await of the manager's method on: the try block
\* returns formatSuccessResponse, or the catch block formatErrorResponse of
\* what the method threw
HandlerEnd(w, cl) ==
    LET state == getConnectionState(w)
    IN  IF cl.value.state = "rejected"
        THEN Step(w, HandlerCatch(cl, cl.value.reason))
        ELSE Step(w, HandlerReturn(cl,
                 CASE cl.op = "connect-database" ->
                        [message |-> "Connected to " \o cl.cfg.engine
                                        \o " server at " \o cl.cfg.server,
                         database |-> state.database]
                   [] cl.op = "disconnect" ->
                        [message |-> IF cl.live
                                     THEN "Disconnected from database"
                                     ELSE "No active connection to disconnect"]
                   [] cl.op = "switch-database" ->
                        [message |-> "Switched to database '" \o cl.arg \o "'",
                         database |-> state.database]
                   [] cl.op = "execute-query" ->
                        [rows |-> Rows, queryMode |-> cl.mode]
                   [] cl.op = "describe-table" ->
                        [tableName |-> cl.arg, schema |-> "default",
                         columns |-> Rows]
                   [] OTHER -> [rows |-> Rows]))

\* The execute-query handler with validateQuery's throw ignored
HandlerBeginUnchecked(w, cl, query, limit, mode) ==
    IF ~ExecuteQuerySchemaOk(query, limit)
    THEN Step(w, HandlerCatch(cl, ZodError("query or limit")))
    ELSE QueryBegin(w, [cl EXCEPT !.validated = validateQuery(query, mode).kind,
                                  !.mode = mode],
                    "executeQuery", query, InputLimit(limit))

\* The execute-query handler up to its await of
\* connectionManager.executeQuery(input.query, input.limit ?? 100), or to
\* its catch block when the schema or validateQuery throws
HandlerBegin(w, cl, query, limit, mode) ==
    IF ~ExecuteQuerySchemaOk(query, limit)
    THEN Step(w, HandlerCatch(cl, ZodError("query or limit")))
    ELSE LET v == validateQuery(query, mode)
             cl1 == [cl EXCEPT !.validated = v.kind, !.mode = mode]
         IN  IF v.kind # "ok"
             THEN Step(w, HandlerCatch(cl1, ErrorOf(v.kind, v.message, <<>>)))
             ELSE QueryBegin(w, cl1, "executeQuery", query, InputLimit(limit))

(***************************************************************************)
(* Process termination                                                     *)
(***************************************************************************)

\* The ways the process ends: the signal handlers, the handlers of uncaught
\* errors, and main().catch
TerminationPaths ==
    {"SIGINT", "SIGTERM", "uncaughtException", "unhandledRejection", "fatal"}

\* A handler of process termination from `await
\* connectionManager.disconnect()` on: process.exit, or, when disconnect()
\* threw, the promise of the handler is rejected with nothing to handle it
ShutdownEnd(w, cl) ==
    IF cl.value.state = "rejected"
    THEN Step(w, [Pop(cl) EXCEPT !.pc = "unhandled",
                                  !.result = Outcome(cl.value)])
    ELSE Step(w, [Pop(cl) EXCEPT !.pc = "exited", !.result = "ok"])

(***************************************************************************)
(* Actions.  A step is a piece of code that runs without interruption: a   *)
(* call from outside up to its first await (or to its end), the driver     *)
(* settling one promise, or one async function resuming from its await and *)
(* running to its next await (or to its end).  Settled awaits of different *)
(* calls resume in any order: the order depends on when the driver settles *)
(* its promises and on what else the calling code awaits.                  *)
(***************************************************************************)

\* Nothing runs after process.exit
Running == \A d \in CallIds : calls[d].pc # "exited"

\* main() has loaded the configuration; after it main() registers the tools
\* and the handlers of process termination
Serving == configInstance # NULL

NextCall(c) ==
    /\ Running
    /\ calls[c].op = "none"
    /\ \A d \in 1..(c - 1) : calls[d].op # "none"

\* The record of a call as it is made; bottom is the frame that awaits it
Started(c, op, arg, bottom) ==
    [NoCall EXCEPT !.op = op, !.arg = arg, !.stack = <<bottom>>,
                   !.live = IsLive(World), !.prev = adapter,
                   !.before = getConnectionState(World),
                   !.stored = IF adapter # 0 THEN adapters[adapter].config
                              ELSE NULL]

Apply(c, r) ==
    /\ adapter' = r.w.adapter
    /\ serverAddress' = r.w.serverAddress
    /\ adapters' = r.w.adapters
    /\ pools' = r.w.pools
    /\ calls' = [calls EXCEPT ![c] = r.call]

\* connectionManager.connect(config)
Connect(c, cfg) ==
    /\ NextCall(c)
    /\ Apply(c, ConnectBegin(World,
                             [Started(c, "connect", "", "caller") EXCEPT
                                 !.cfg = cfg],
                             c, cfg))
    /\ UNCHANGED <<environment, configInstance, typed, outcome, execution,
                   identifier>>

\* connectionManager.disconnect()
Disconnect(c) ==
    /\ NextCall(c)
    /\ Apply(c, DisconnectBegin(World, Started(c, "disconnect", "", "caller")))
    /\ UNCHANGED <<environment, configInstance, typed, outcome, execution,
                   identifier>>

\* connectionManager.switchDatabase(database)
SwitchDatabase(c, database) ==
    /\ NextCall(c)
    /\ Apply(c, SwitchBegin(World,
                            Started(c, "switchDatabase", database, "caller"),
                            c, database))
    /\ UNCHANGED <<environment, configInstance, typed, outcome, execution,
                   identifier>>

\* connectionManager.listDatabases() / listTables() / describeTable(name)
Catalog(c, op) ==
    /\ NextCall(c)
    /\ Apply(c, QueryBegin(World, Started(c, op, "", "caller"), op, "",
                           DefaultLimit))
    /\ UNCHANGED <<environment, configInstance, typed, outcome, execution,
                   identifier>>

\* connectionManager.executeQuery(sql, limit)
ExecuteQuery(c, query, limit) ==
    /\ NextCall(c)
    /\ Apply(c, QueryBegin(World,
                           [Started(c, "executeQuery", query, "caller") EXCEPT
                               !.limit = Number(limit)],
                           "executeQuery", query, limit))
    /\ UNCHANGED <<environment, configInstance, typed, outcome, execution,
                   identifier>>

\* The driver settles the promise that call c awaits: pool.connect() makes
\* the pool a live one and pool.end() / pool.close() closes it when they
\* resolve; the pool of sql.connect() is with the adapter when it resumes
DriverSettles(c, value) ==
    LET cl == calls[c]
    IN  /\ Running
        /\ cl.pc \in {"connecting", "disconnecting", "querying"}
        /\ pools' = IF value.state = "fulfilled" /\ cl.pool # 0
                    THEN CASE cl.pc = "connecting" ->
                                [pools EXCEPT ![cl.pool] =
                                    IF @ = "created" THEN "open" ELSE @]
                           [] cl.pc = "disconnecting" ->
                                [pools EXCEPT ![cl.pool] = "closed"]
                           [] OTHER -> pools
                    ELSE pools
        /\ calls' = [calls EXCEPT ![c] = Settle(cl, value)]
        /\ UNCHANGED <<adapter, serverAddress, adapters, environment,
                       configInstance, typed, outcome, execution, identifier>>

\* The async function on top of the stack of call c, from its await on
Continue(w, cl, c) ==
    LET frame == Head(cl.stack)
    IN  CASE frame = "adapter.connect" -> AdapterConnectEnd(w, cl, c)
          [] frame = "adapter.disconnect" -> AdapterDisconnectEnd(w, cl)
          [] frame = "adapter.switchDatabase:disconnect" ->
                 AdapterSwitchReconnect(w, cl, c)
          [] frame = "adapter.switchDatabase:connect" -> SwitchEnd(w, cl)
          [] frame = "adapter.switchDatabase" -> AdapterSwitchEnd(w, cl)
          [] frame = "adapter.query" -> AdapterQueryEnd(w, cl)
          [] frame = "manager.connect:disconnect" ->
                 ConnectAfterDisconnect(w, cl, c)
          [] frame = "manager.connect:connect" -> ConnectEnd(w, cl)
          [] frame = "manager.disconnect" -> DisconnectEnd(w, cl)
          [] frame = "manager.switchDatabase" -> SwitchEnd(w, cl)
          [] frame = "caller" -> CallerResumes(w, cl)
          [] frame = "handler" -> HandlerEnd(w, cl)
          [] frame = "shutdown" -> ShutdownEnd(w, cl)

\* The settled await of call c resumes
Resume(c) ==
    /\ Running
    /\ calls[c].pc = "settled"
    /\ Apply(c, Continue(World, calls[c], c))
    /\ UNCHANGED <<environment, configInstance, typed, outcome, execution,
                   identifier>>

(***************************************************************************)
(* The server: main() and the eight tool handlers of registerTools.  The   *)
(* arguments of a request have passed the inputSchema of its tool.         *)
(***************************************************************************)

\* Requests served
MaxRequests == 2
RequestIds == 1..MaxRequests

ToolConfigs ==
    {[engine |-> "mssql", server |-> "s1", database |-> Str("db1")],
     [engine |-> "postgres", server |-> "s2", database |-> Undefined],
     [engine |-> "postgres", server |-> "", database |-> Undefined]}
DatabaseInputs == {"db2", ""}
TableInputs == {"t", ""}
RequestLimits ==
    {Undefined, Number(50), Number(0), Number(1001), Fraction(3, 2)}

\* main(): const config = getConfig(), before the tools are registered and
\* the transport is connected
Main ==
    /\ configInstance = NULL
    /\ \A c \in CallIds : calls[c].op = "none"
    /\ configInstance' = getConfig(configInstance, environment)
    /\ UNCHANGED <<adapter, serverAddress, adapters, pools, calls,
                   environment, typed, outcome, execution, identifier>>

\* process.env.SQL_MCP_MODE is assigned or deleted
SetEnvironment(value) ==
    /\ environment # value
    /\ environment' = value
    /\ UNCHANGED <<adapter, serverAddress, adapters, pools, calls,
                   configInstance, typed, outcome, execution, identifier>>

\* The connect-database tool request
HandleConnectDatabase(c, args) ==
    /\ Serving
    /\ NextCall(c)
    /\ LET cl == [Started(c, "connect-database", "", "handler") EXCEPT
                     !.cfg = args]
       IN  Apply(c, IF ~ConnectDatabaseSchemaOk(args)
                    THEN Step(World, HandlerCatch(cl, ZodError("server")))
                    ELSE ConnectBegin(World, cl, c, args))
    /\ UNCHANGED <<environment, configInstance, typed, outcome, execution,
                   identifier>>

\* The disconnect tool request; wasConnected is the call's live
HandleDisconnect(c) ==
    /\ Serving
    /\ NextCall(c)
    /\ Apply(c, DisconnectBegin(World,
                                Started(c, "disconnect", "", "handler")))
    /\ UNCHANGED <<environment, configInstance, typed, outcome, execution,
                   identifier>>

\* The connection-status tool request
HandleConnectionStatus(c) ==
    LET state == getConnectionState(World)
        config == getConfig(configInstance, environment)
    IN  /\ Serving
        /\ NextCall(c)
        /\ configInstance' = config
        /\ calls' = [calls EXCEPT ![c] =
               HandlerReturn(
                   [Started(c, "connection-status", "", "handler") EXCEPT
                       !.mode = config.queryMode],
                   [connected |-> state.isConnected, engine |-> state.engine,
                    server |-> state.server, database |-> state.database,
                    queryMode |-> config.queryMode,
                    queryModeDescription |->
                        getModeDescription(config.queryMode)])]
        /\ UNCHANGED <<adapter, serverAddress, adapters, pools, environment,
                       typed, outcome, execution, identifier>>

\* The list-databases tool request
HandleListDatabases(c) ==
    /\ Serving
    /\ NextCall(c)
    /\ Apply(c, QueryBegin(World, Started(c, "list-databases", "", "handler"),
                           "listDatabases", "", DefaultLimit))
    /\ UNCHANGED <<environment, configInstance, typed, outcome, execution,
                   identifier>>

\* The switch-database tool request
HandleSwitchDatabase(c, database) ==
    /\ Serving
    /\ NextCall(c)
    /\ LET cl == Started(c, "switch-database", database, "handler")
       IN  Apply(c, IF ~SwitchDatabaseSchemaOk(database)
                    THEN Step(World, HandlerCatch(cl, ZodError("database")))
                    ELSE SwitchBegin(World, cl, c, database))
    /\ UNCHANGED <<environment, configInstance, typed, outcome, execution,
                   identifier>>

\* The list-tables tool request
HandleListTables(c) ==
    /\ Serving
    /\ NextCall(c)
    /\ Apply(c, QueryBegin(World, Started(c, "list-tables", "", "handler"),
                           "listTables", "", DefaultLimit))
    /\ UNCHANGED <<environment, configInstance, typed, outcome, execution,
                   identifier>>

\* The describe-table tool request, naming no schema
HandleDescribeTable(c, tableName) ==
    /\ Serving
    /\ NextCall(c)
    /\ LET cl == Started(c, "describe-table", tableName, "handler")
       IN  Apply(c, IF ~DescribeTableSchemaOk(tableName)
                    THEN Step(World, HandlerCatch(cl, ZodError("tableName")))
                    ELSE QueryBegin(World, cl, "describeTable", tableName,
                                    DefaultLimit))
    /\ UNCHANGED <<environment, configInstance, typed, outcome, execution,
                   identifier>>

\* The execute-query tool request
HandleExecuteQuery(c, query, limit) ==
    LET config == getConfig(configInstance, environment)
    IN  /\ Serving
        /\ NextCall(c)
        /\ configInstance' = IF ExecuteQuerySchemaOk(query, limit) THEN config
                             ELSE configInstance
        /\ Apply(c, HandlerBegin(World,
                                 [Started(c, "execute-query", query, "handler")
                                     EXCEPT !.limit = limit],
                                 query, limit, config.queryMode))
        /\ UNCHANGED <<environment, typed, outcome, execution, identifier>>

NextServer ==
    \/ Main
    \/ \E value \in EnvironmentValues : SetEnvironment(value)
    \/ \E c \in RequestIds :
        \/ \E args \in ToolConfigs : HandleConnectDatabase(c, args)
        \/ HandleDisconnect(c)
        \/ HandleConnectionStatus(c)
        \/ HandleListDatabases(c)
        \/ \E d \in DatabaseInputs : HandleSwitchDatabase(c, d)
        \/ HandleListTables(c)
        \/ \E t \in TableInputs : HandleDescribeTable(c, t)
        \/ \E q \in Queries, l \in RequestLimits : HandleExecuteQuery(c, q, l)
        \/ \E value \in DriverOutcomes : DriverSettles(c, value)
        \/ Resume(c)

(***************************************************************************)
(* The server process from start to exit: main() runs, sessions are opened *)
(* by connect-database requests, and at any moment a termination path is   *)
(* taken.  Nothing runs after process.exit.                                *)
(***************************************************************************)

\* A termination path is taken.  main().catch calls process.exit at once:
\* it is taken when main() fails in connecting the transport, before a
\* request is served.  The other paths run a handler up to its await of
\* connectionManager.disconnect().
Terminate(c, path) ==
    /\ Serving
    /\ NextCall(c)
    /\ path = "fatal" => c = 1
    /\ Apply(c, IF path = "fatal"
                THEN Step(World, [Started(c, path, "", "shutdown") EXCEPT
                                     !.pc = "exited", !.stack = <<>>])
                ELSE DisconnectBegin(World, Started(c, path, "", "shutdown")))
    /\ UNCHANGED <<environment, configInstance, typed, outcome, execution,
                   identifier>>

\* The rejected promise of a termination handler reaches the
\* unhandledRejection handler, which runs up to its await of
\* connectionManager.disconnect()
UnhandledRejection(c) ==
    /\ Running
    /\ calls[c].pc = "unhandled"
    /\ Apply(c, DisconnectBegin(World, Push(calls[c], "shutdown")))
    /\ UNCHANGED <<environment, configInstance, typed, outcome, execution,
                   identifier>>

NextShutdown ==
    \/ Main
    \/ \E c \in CallIds :
        \/ \E args \in ToolConfigs : HandleConnectDatabase(c, args)
        \/ \E path \in TerminationPaths : Terminate(c, path)
        \/ UnhandledRejection(c)
        \/ \E value \in DriverOutcomes : DriverSettles(c, value)
        \/ Resume(c)

(***************************************************************************)
(* validateQuery on its own: a statement is typed fragment by fragment, a  *)
(* head (optional leading whitespace and a first word) and then up to      *)
(* MaxTail further fragments, at most one of them a statement separator    *)
(* with a second keyword, and validateQuery is applied to it in every      *)
(* mode.                                                                   *)
(***************************************************************************)

MaxTail == 2

Leads == {"", " \n"}
HeadWords ==
    SafeKeywords \cup WriteKeywords \cup DdlKeywords
        \cup {"WITH", "select", "with", "x", "", "SELECTED"}
Heads == {l \o h : l \in Leads, h \in HeadWords}
Tails == {" ", ";", "(", "x", " x, y ", "AS(", "xp_cmdshell", "SP_ExecuteSql"}
Separators == {";DROP", "; delete", ";TRUNCATE", ";UPDATE", ";INSERT", ";ALTER",
               ";CREATE", ";EXEC", ";MERGE", ";GRANT", ";REVOKE", ";EXECUTE"}

RECURSIVE Join(_)
Join(fs) == IF fs = <<>> THEN "" ELSE Head(fs) \o Join(Tail(fs))

\* The statement typed so far
Statement == Join(typed)

NotValidated == [m \in QueryModes |-> [kind |-> "none", message |-> ""]]

TypeHead(h) ==
    /\ outcome = NotValidated
    /\ typed = <<>>
    /\ typed' = <<h>>
    /\ UNCHANGED <<managerVars, outcome, execution, identifier>>

TypeTail(t) ==
    /\ outcome = NotValidated
    /\ Len(typed) \in 1..MaxTail
    /\ typed' = Append(typed, t)
    /\ UNCHANGED <<managerVars, outcome, execution, identifier>>

TypeSeparator(t) ==
    /\ outcome = NotValidated
    /\ Len(typed) \in 1..MaxTail
    /\ \A i \in 1..Len(typed) : typed[i] \notin Separators
    /\ typed' = Append(typed, t)
    /\ UNCHANGED <<managerVars, outcome, execution, identifier>>

Validate ==
    /\ outcome = NotValidated
    /\ outcome' = [m \in QueryModes |-> validateQuery(Statement, m)]
    /\ UNCHANGED <<managerVars, typed, execution, identifier>>

NextValidate ==
    \/ \E h \in Heads : TypeHead(h)
    \/ \E t \in Tails : TypeTail(t)
    \/ \E t \in Separators : TypeSeparator(t)
    \/ Validate

(***************************************************************************)
(* An adapter's executeQuery on its own: a statement is typed, a first     *)
(* word and then up to MaxClauses further fragments, executeQuery is       *)
(* called with it on an adapter of either engine, and the driver settles   *)
(* the statement it was sent.                                              *)
(***************************************************************************)

MaxClauses == 2

SelectHeads == {"SELECT", "select", " Select", "UPDATE", "WITH"}
Clauses == {"*", " * FROM t", " TOP 5 *", "\tTOP 5 *", "\nLIMIT 5", " LIMIT 5",
            " OFFSET 5 ROWS", ";"}

\* The limit argument: omitted, or a number
Limits == {<<>>, <<50>>}

\* executeQuery(query, limit = 100)
LimitOrDefault(limit) == IF limit = <<>> THEN DefaultLimit ELSE limit[1]

Row1 == << <<"id", "1">>, <<"name", "a">> >>
Row2 == << <<"id", "2">>, <<"name", "b">> >>
RowLists == {<<>>, <<Row1>>, <<Row1, Row2>>}

\* What mssql's request.query() resolves with: a statement that returns no
\* result set leaves recordset undefined
MssqlResults ==
    {[hasRecordset |-> TRUE, recordset |-> r, rowsAffected |-> n] :
        r \in RowLists, n \in {<<>>, <<0>>, <<2>>, <<1, 2>>}}
      \cup {[hasRecordset |-> FALSE, recordset |-> <<>>, rowsAffected |-> n] :
               n \in {<<>>, <<0>>, <<2>>, <<1, 2>>}}

\* What pg's pool.query() resolves with: rowCount is null for a statement
\* that reports no count
PostgresResults ==
    {[rows |-> r, fields |-> f, rowCount |-> n] :
        r \in RowLists,
        f \in {<<>>, <<[name |-> "id"], [name |-> "name"]>>},
        n \in {<<>>, <<0>>, <<2>>}}

DriverResults(engine) ==
    IF engine = "mssql" THEN MssqlResults ELSE PostgresResults

\* reached: the driver was given the statement sent
NotExecuted ==
    [pc |-> "idle", engine |-> "none", query |-> "", limit |-> <<>>,
     reached |-> FALSE, sent |-> "", driver |-> <<>>, result |-> <<>>,
     kind |-> "none"]

\* executeQuery(query, limit) up to its await of the driver:
\* validateConnected() throws, or the statement is rewritten and, inside the
\* try block, given to the pool; with this.pool null that throws a
\* TypeError, which the catch block wraps in QueryError
executeQueryBegin(ad, query, limit) ==
    LET called == [NotExecuted EXCEPT !.engine = ad.engine, !.query = query,
                                      !.limit = limit]
    IN  IF ~validateConnectedOk(ad)
        THEN [called EXCEPT !.pc = "done", !.kind = "NotConnectedError"]
        ELSE IF ad.pool = 0
        THEN [called EXCEPT !.pc = "done", !.kind = "QueryError"]
        ELSE [called EXCEPT !.pc = "querying", !.reached = TRUE,
                            !.sent = ModifiedQuery(ad.engine, query,
                                                   LimitOrDefault(limit))]

TypeSelect(h) ==
    /\ execution = NotExecuted
    /\ typed = <<>>
    /\ typed' = <<h>>
    /\ UNCHANGED <<managerVars, outcome, execution, identifier>>

TypeClause(t) ==
    /\ execution = NotExecuted
    /\ Len(typed) \in 1..MaxClauses
    /\ typed' = Append(typed, t)
    /\ UNCHANGED <<managerVars, outcome, execution, identifier>>

\* adapter.executeQuery(query, limit) on an adapter that is connected or
\* not and holds a pool or not.  A MssqlAdapter sets and clears isConnected
\* and its pool together; a PostgresAdapter can hold a pool while not
\* connected (after a failed connect) and be connected with none (after a
\* disconnect that overlapped its connect).
AdapterExecuteQuery(engine, connected, hasPool, limit) ==
    /\ execution = NotExecuted
    /\ typed # <<>>
    /\ engine = "mssql" => connected = hasPool
    /\ execution' = executeQueryBegin(
                        [NewAdapter(engine) EXCEPT
                            !.isConnected = connected,
                            !.pool = IF hasPool THEN 1 ELSE 0],
                        Join(typed), limit)
    /\ UNCHANGED <<managerVars, typed, outcome, identifier>>

\* the driver resolves the statement
DriverResolves(result) ==
    /\ execution.pc = "querying"
    /\ result \in DriverResults(execution.engine)
    /\ execution' = [execution EXCEPT
                        !.pc = "done", !.kind = "ok", !.driver = result,
                        !.result = QueryResultOf(execution.engine, result)]
    /\ UNCHANGED <<managerVars, typed, outcome, identifier>>

\* the driver rejects the statement
DriverRejects ==
    /\ execution.pc = "querying"
    /\ execution' = [execution EXCEPT !.pc = "done", !.kind = "QueryError"]
    /\ UNCHANGED <<managerVars, typed, outcome, identifier>>

NextExecute ==
    \/ \E h \in SelectHeads : TypeSelect(h)
    \/ \E t \in Clauses : TypeClause(t)
    \/ \E engine \in Engines, connected \in BOOLEAN, hasPool \in BOOLEAN,
          limit \in Limits :
          AdapterExecuteQuery(engine, connected, hasPool, limit)
    \/ \E result \in MssqlResults \cup PostgresResults : DriverResolves(result)
    \/ DriverRejects

(***************************************************************************)
(* The identifier codec on its own: an identifier of up to MaxIdentifier   *)
(* parts is typed, and sanitizeIdentifier and escapeIdentifier are applied *)
(* to it.                                                                  *)
(***************************************************************************)

MaxIdentifier == 5

IdentifierParts == {"[", "]", "\"", "'", "a", "Z1_", ".", ";"}

NoResult == [kind |-> "none", value |-> ""]
NotEscaped == [sanitized |-> NoResult, escaped |-> [e \in Engines |-> NoResult]]

TypePart(ch) ==
    /\ identifier = NotEscaped
    /\ Len(typed) < MaxIdentifier
    /\ typed' = Append(typed, ch)
    /\ UNCHANGED <<managerVars, outcome, execution, identifier>>

Escape ==
    /\ identifier = NotEscaped
    /\ identifier' = [sanitized |-> sanitizeIdentifier(Join(typed)),
                      escaped |-> [e \in Engines |->
                                      escapeIdentifier(Join(typed), e)]]
    /\ UNCHANGED <<managerVars, typed, outcome, execution>>

NextIdentifier ==
    \/ \E ch \in IdentifierParts : TypePart(ch)
    \/ Escape

(***************************************************************************)
(* Loading the configuration from a setting written fragment by fragment   *)
(***************************************************************************)

MaxSetting == 3
SettingParts == {"wr", "WR", "ite", "iTe", "fu", "Fu", "ll", "LL", "safe", " "}

TypeSetting(part) ==
    /\ environment = Undefined
    /\ configInstance = NULL
    /\ Len(typed) < MaxSetting
    /\ typed' = Append(typed, part)
    /\ UNCHANGED <<adapter, serverAddress, adapters, pools, calls,
                   environment, configInstance, outcome, execution, identifier>>

\* SQL_MCP_MODE=<setting> in the environment of the process
ExportSetting ==
    /\ environment = Undefined
    /\ configInstance = NULL
    /\ environment' = Str(Join(typed))
    /\ UNCHANGED <<adapter, serverAddress, adapters, pools, calls,
                   configInstance, typed, outcome, execution, identifier>>

\* main(): const config = getConfig()
LoadConfig ==
    /\ configInstance = NULL
    /\ configInstance' = getConfig(configInstance, environment)
    /\ UNCHANGED <<adapter, serverAddress, adapters, pools, calls,
                   environment, typed, outcome, execution, identifier>>

NextConfig ==
    \/ \E part \in SettingParts : TypeSetting(part)
    \/ ExportSetting
    \/ LoadConfig

(***************************************************************************)
(* An adapter on its own: one adapter is constructed and its methods are   *)
(* called on it directly, in any order and overlapping.                    *)
(***************************************************************************)

\* new MssqlAdapter() / new PostgresAdapter()
Construct(engine) ==
    /\ \A a \in CallIds : adapters[a] = NoAdapter
    /\ adapters' = [adapters EXCEPT ![1] = NewAdapter(engine)]
    /\ UNCHANGED <<adapter, serverAddress, pools, calls, environment,
                   configInstance, typed, outcome, execution, identifier>>

\* adapter.connect(config)
AdapterConnect(c, a, cfg) ==
    /\ NextCall(c)
    /\ adapters[a] # NoAdapter
    /\ Apply(c, AdapterConnectBegin(
                    World, Started(c, "adapter.connect", "", "caller"), c, a,
                    cfg))
    /\ UNCHANGED <<environment, configInstance, typed, outcome, execution,
                   identifier>>

\* adapter.disconnect()
AdapterDisconnect(c, a) ==
    /\ NextCall(c)
    /\ adapters[a] # NoAdapter
    /\ Apply(c, AdapterDisconnectBegin(
                    World, Started(c, "adapter.disconnect", "", "caller"), a))
    /\ UNCHANGED <<environment, configInstance, typed, outcome, execution,
                   identifier>>

\* adapter.switchDatabase(database)
AdapterSwitchDatabase(c, a, database) ==
    /\ NextCall(c)
    /\ adapters[a] # NoAdapter
    /\ Apply(c, AdapterSwitchBegin(
                    World,
                    [Started(c, "switchDatabase", database, "caller") EXCEPT
                        !.stored = adapters[a].config],
                    c, a, database))
    /\ UNCHANGED <<environment, configInstance, typed, outcome, execution,
                   identifier>>

\* adapter.listDatabases() / listTables() / describeTable(name) /
\* executeQuery(sql)
AdapterQuery(c, a, op, query) ==
    /\ NextCall(c)
    /\ adapters[a] # NoAdapter
    /\ Apply(c, AdapterQueryBegin(World, Started(c, op, query, "caller"), a,
                                  op, query, DefaultLimit))
    /\ UNCHANGED <<environment, configInstance, typed, outcome, execution,
                   identifier>>

NextAdapter ==
    \/ \E engine \in Engines : Construct(engine)
    \/ \E c \in CallIds :
        \/ \E cfg \in {k \in Configs : createAdapterOk(k.engine)} :
               AdapterConnect(c, 1, cfg)
        \/ AdapterDisconnect(c, 1)
        \/ \E d \in SwitchTargets \cup {"a]; DROP DATABASE b; --"} :
               AdapterSwitchDatabase(c, 1, d)
        \/ \E op \in CatalogOps : AdapterQuery(c, 1, op, "t")
        \/ AdapterQuery(c, 1, "executeQuery", "SELECT 1")
        \/ \E value \in DriverOutcomes : DriverSettles(c, value)
        \/ Resume(c)

(***************************************************************************)
(* Specifications                                                          *)
(***************************************************************************)

ManagerInit ==
    /\ adapter = 0
    /\ serverAddress = NULL
    /\ adapters = [a \in CallIds |-> NoAdapter]
    /\ pools = [p \in CallIds |-> "none"]
    /\ calls = [c \in CallIds |-> NoCall]
    /\ configInstance = NULL

Init ==
    /\ ManagerInit
    /\ environment \in EnvironmentValues
    /\ typed = <<>>
    /\ outcome = NotValidated
    /\ execution = NotExecuted
    /\ identifier = NotEscaped

\* The connection manager on its own: the methods of the exported
\* connectionManager are called in any order and overlapping.  The
\* configuration has no part in it.
Next ==
    \E c \in CallIds :
        \/ \E cfg \in Configs : Connect(c, cfg)
        \/ Disconnect(c)
        \/ \E d \in SwitchTargets : SwitchDatabase(c, d)
        \/ \E op \in CatalogOps : Catalog(c, op)
        \/ ExecuteQuery(c, "SELECT 1", 50)
        \/ \E value \in DriverOutcomes : DriverSettles(c, value)
        \/ Resume(c)

InitValidate ==
    /\ ManagerInit
    /\ environment = Undefined
    /\ typed = <<>>
    /\ outcome = NotValidated
    /\ execution = NotExecuted
    /\ identifier = NotEscaped

Spec == InitValidate /\ [][Next]_vars

\* The server as main() starts it: the process begins with no configuration
\* loaded and any SQL_MCP_MODE
SpecServer == Init /\ [][NextServer]_vars

SpecValidate == InitValidate /\ [][NextValidate]_vars

SpecExecute == InitValidate /\ [][NextExecute]_vars

SpecIdentifier == InitValidate /\ [][NextIdentifier]_vars

SpecConfig == InitValidate /\ [][NextConfig]_vars

SpecAdapter == InitValidate /\ [][NextAdapter]_vars

SpecShutdown == Init /\ [][NextShutdown]_vars

TypeOK ==
    /\ adapter \in 0..MaxCalls
    /\ serverAddress \in {Str(s) : s \in Servers} \cup {NULL}
    /\ configInstance \in {[queryMode |-> m] : m \in QueryModes} \cup {NULL}
    /\ \A p \in CallIds : pools[p] \in {"none", "created", "open", "closed"}
    /\ \A c \in CallIds :
          /\ calls[c].pc \in {"idle", "connecting", "disconnecting",
                              "querying", "settled", "unhandled", "done",
                              "exited"}
          /\ calls[c].value.state \in {"pending", "fulfilled", "rejected"}
          /\ calls[c].pc \in {"connecting", "disconnecting", "querying",
                              "settled"} => calls[c].stack # <<>>

(***************************************************************************)
(* Properties of the Connection Manager                                    *)
(***************************************************************************)

Range(f) == {f[i] : i \in DOMAIN f}

ConnectedAdapters == {a \in CallIds : adapters[a].isConnected}

\* The frame on top of the stack of call c resumes in this step.
Resumes(c, frame) ==
    /\ calls[c].pc = "settled"
    /\ Head(calls[c].stack) = frame
    /\ calls'[c] # calls[c]

\* The promise of call c settles in this step: the method called has
\* returned or thrown.
Settles(c) ==
    /\ calls'[c] # calls[c]
    /\ calls'[c].pc = "settled"
    /\ Len(calls'[c].stack) = 1

\* The code that made call c resumes from its await in this step.
Returns(c) == calls[c].pc # "done" /\ calls'[c].pc = "done"

\* C1: in every reachable state, whatever connect, disconnect and
\* switchDatabase calls were made and however they interleaved, at most one
\* adapter instance reports isConnected = true.
C1_AtMostOneConnected == Cardinality(ConnectedAdapters) <= 1

GenericOps == CatalogOps \cup {"executeQuery", "switchDatabase"}

\* C9: a listDatabases, listTables, describeTable, executeQuery or
\* switchDatabase call made while the manager tracked no adapter, or tracked
\* one reporting isConnected = false, has failed with NotConnectedError and
\* with nothing else, and has invoked no operation of any adapter.
C9_NotConnected ==
    \A c \in CallIds :
        (calls[c].op \in GenericOps /\ ~calls[c].live) =>
            /\ calls[c].pc \in {"settled", "done"}
            /\ calls[c].value = Rejected(NotConnectedError)
            /\ calls[c].pc = "done" => calls[c].result = "NotConnectedError"
            /\ calls[c].ops = <<>>
            /\ calls[c].sent = ""

\* C9 witness: a generic operation was refused while the manager tracked an
\* adapter that reported isConnected = false.
C9_Witness ==
    \E c \in CallIds :
        /\ calls[c].op \in GenericOps
        /\ ~calls[c].live
        /\ calls[c].prev # 0
        /\ calls[c].result = "NotConnectedError"

\* C10: once a connect call made while a session was live is past its await
\* of this.disconnect(), the previous adapter's disconnect has been invoked
\* and has completed: that adapter reports isConnected = false and holds no
\* open pool, whether the call went on to create its adapter or not.  The
\* old session is never left open.
C10_OldSessionNeverLeftOpen ==
    \A c \in CallIds :
        (calls[c].op = "connect" /\ calls[c].live
            /\ "manager.connect:disconnect" \notin Range(calls[c].stack)) =>
            /\ calls[c].ops # <<>>
            /\ calls[c].ops[1] = <<"disconnect", calls[c].prev>>
            /\ ~adapters[calls[c].prev].isConnected
            /\ \A p \in CallIds :
                  adapters[calls[c].prev].pool = p => pools[p] # "open"

\* C11: when the adapter's connect fails inside connectionManager.connect,
\* the call fails with ConnectionError and right afterwards the manager
\* holds no reference to the adapter it created, holds no server address,
\* and getConnectionState reports the fully-disconnected state.
C11_FailedAdapterDiscarded ==
    [][\A c \in CallIds :
          (calls[c].op = "connect" /\ Returns(c)
              /\ calls'[c].result = "ConnectionError") =>
              /\ adapter' # calls[c].created
              /\ serverAddress' = NULL
              /\ getConnectionState(World)' = Disconnected]_vars

\* C12: when a disconnect call resolves, getConnectionState reports the
\* fully-disconnected state; a disconnect call made with no live session
\* resolves without throwing and leaves the reported state as it was.
C12_DisconnectIdempotent ==
    [][\A c \in CallIds :
          (calls'[c].op = "disconnect" /\ Returns(c)) =>
              /\ calls'[c].result = "ok" =>
                    getConnectionState(World)' = Disconnected
              /\ ~calls'[c].live =>
                    /\ calls'[c].result = "ok"
                    /\ getConnectionState(World)' = calls'[c].before]_vars

\* C13: when the tracked adapter's disconnect throws inside
\* connectionManager.disconnect, the finally block runs all the same: once
\* it has run, with disconnect() throwing what the adapter threw, the
\* manager's adapter reference and server address are both cleared,
\* getConnectionState reports the fully-disconnected state, and every
\* generic operation called then fails with NotConnectedError.  That lasts:
\* getAdapter stops throwing only in a step in which the connect of the
\* adapter then tracked succeeds.
C13_ClearedWhenTeardownThrows ==
    [][/\ \A c \in CallIds :
             (calls[c].op = "disconnect" /\ Resumes(c, "manager.disconnect")
                 /\ calls[c].value.state = "rejected") =>
                 /\ Settles(c)
                 /\ calls'[c].value = calls[c].value
                 /\ adapter' = 0
                 /\ serverAddress' = NULL
                 /\ getConnectionState(World)' = Disconnected
                 /\ ~getAdapterOk(World)'
                 /\ \A op \in CatalogOps \cup {"executeQuery"} :
                       QueryBegin(World, NoCall, op, "SELECT 1",
                                  DefaultLimit)'.call.value
                           = Rejected(NotConnectedError)
                 /\ \A d \in SwitchTargets :
                       SwitchBegin(World, NoCall, c, d)'.call.value
                           = Rejected(NotConnectedError)
       /\ (~getAdapterOk(World) /\ getAdapterOk(World)') =>
             \E c \in CallIds :
                 /\ Resumes(c, "adapter.connect")
                 /\ calls[c].value.state = "fulfilled"
                 /\ calls[c].this = adapter']_vars

\* C13 witness: a disconnect call has failed with the error of the driver
\* on the adapter's teardown, the manager tracks nothing, and the adapter
\* it tracked still reports isConnected = true.
C13_Witness ==
    \E c \in CallIds :
        /\ calls[c].op = "disconnect"
        /\ calls[c].pc = "done"
        /\ calls[c].value.state = "rejected"
        /\ calls[c].value.reason \in DriverFailures
        /\ adapter = 0
        /\ serverAddress = NULL
        /\ adapters[calls[c].prev].isConnected

\* C14: right after a connect call resolves successfully, getConnectionState
\* reports isConnected = true with the engine and server of the call's
\* config and its database (the engine's default database when the config
\* names none).
C14_StateAfterConnect ==
    [][\A c \in CallIds :
          (calls[c].op = "connect" /\ Returns(c) /\ calls'[c].result = "ok") =>
              getConnectionState(World)' =
                  [isConnected |-> TRUE,
                   engine |-> Str(calls[c].cfg.engine),
                   database |-> IF calls[c].cfg.database = Undefined
                                THEN Str(DefaultDatabase(calls[c].cfg.engine))
                                ELSE calls[c].cfg.database,
                   server |-> Str(calls[c].cfg.server)]]_vars

\* C15: when switchDatabase(d) on a connected PostgresAdapter begins its
\* connect, it has invoked the adapter's disconnect and then its connect,
\* and the config it connects with is the config the adapter had stored
\* when switchDatabase was called, with only database replaced by d.
C15_ReconnectWithStoredConfig ==
    [][\A c \in CallIds :
          (calls'[c].op = "switchDatabase" /\ calls[c].pc # "connecting"
              /\ calls'[c].pc = "connecting") =>
              LET a == calls'[c].this
                  n == Len(calls'[c].ops)
              IN  /\ SubSeq(calls'[c].ops, n - 1, n)
                        = << <<"disconnect", a>>, <<"connect", a>> >>
                  /\ ~adapters'[a].isConnected
                  /\ calls'[c].stored # NULL
                  /\ calls'[c].cfg
                        = [calls'[c].stored EXCEPT
                               !.database = Str(calls'[c].arg)]]_vars

\* C16: right after a switchDatabase(d) call resolves successfully,
\* getConnectionState reports isConnected = true and database = d, with the
\* engine and the server it reported when the call was made.
C16_StateAfterSwitch ==
    [][\A c \in CallIds :
          (calls[c].op = "switchDatabase" /\ Returns(c)
              /\ calls'[c].result = "ok") =>
              getConnectionState(World)' =
                  [isConnected |-> TRUE,
                   engine |-> calls[c].before.engine,
                   database |-> Str(calls[c].arg),
                   server |-> calls[c].before.server]]_vars

\* C27: whenever getConnectionState reports isConnected = true, the reported
\* engine and database are those of the tracked adapter and the reported
\* server is non-null and equals the server of the config with which the
\* tracked adapter established its current session, after any sequence or
\* interleaving of connect, disconnect and switchDatabase calls.
C27_ProjectionTracksSession ==
    LET state == getConnectionState(World)
        config == adapters[adapter].config
    IN  state.isConnected =>
            /\ state.engine = Str(adapters[adapter].engine)
            /\ state.database = adapters[adapter].currentDatabase
            /\ state.server # NULL
            /\ config # NULL
            /\ "server" \in DOMAIN config
            /\ state.server = Str(config.server)

\* The codes of ConnectionError, QueryError, ValidationError,
\* PermissionError and NotConnectedError.
TaxonomyCodes ==
    {ErrorCode(class) : class \in {"ConnectionError", "QueryError",
                                   "ValidationError", "PermissionError",
                                   "NotConnectedError"}}

\* C21: a connect call whose engine tag is neither mssql nor postgres fails
\* with an error that carries a code of its own, different from the codes
\* of ConnectionError, QueryError, ValidationError, PermissionError and
\* NotConnectedError; it has created no adapter, and in the step in which
\* it fails no adapter becomes tracked or connected.
C21_UnsupportedEngine ==
    [][\A c \in CallIds :
          (calls'[c].op = "connect" /\ calls'[c].cfg.engine \notin Engines
              /\ Settles(c)) =>
              /\ calls'[c].value.state = "rejected"
              /\ IsError(calls'[c].value.reason)
              /\ calls'[c].value.reason.code \notin TaxonomyCodes \cup {Undefined}
              /\ calls'[c].created = 0
              /\ adapter' \in {adapter, 0}
              /\ ConnectedAdapters' \subseteq ConnectedAdapters]_vars

\* C34: in every reachable state, under any interleaving of connect and
\* disconnect calls at their await points, every adapter that reports
\* isConnected = true or holds an open pool is the adapter the manager
\* references, and every open pool is that adapter's pool.
C34_NoUntrackedSession ==
    /\ \A a \in CallIds :
          (adapters[a].isConnected
              \/ (adapters[a].pool # 0 /\ pools[adapters[a].pool] = "open")) =>
              adapter = a
    /\ \A p \in CallIds :
          pools[p] = "open" => (adapter # 0 /\ adapters[adapter].pool = p)

\* C35: when the reconnect inside a PostgresAdapter's switchDatabase fails,
\* the call fails with ConnectionError, the adapter has isConnected = false
\* and currentDatabase = null, the manager reports the fully-disconnected
\* state and getAdapter throws NotConnectedError; and in every later step
\* after which getAdapter no longer throws, a connect of an adapter has
\* succeeded.
C35_FailedReconnectDisconnects ==
    [][/\ \A c \in CallIds :
             (calls[c].op = "switchDatabase" /\ Resumes(c, "adapter.connect")
                 /\ calls[c].value.state = "rejected") =>
                 LET a == calls[c].this
                 IN  /\ adapters[a].engine = "postgres"
                     /\ Outcome(calls'[c].value) = "ConnectionError"
                     /\ ~adapters'[a].isConnected
                     /\ adapters'[a].currentDatabase = NULL
                     /\ getConnectionState(World)' = Disconnected
                     /\ ~getAdapterOk(World)'
       /\ (~getAdapterOk(World) /\ getAdapterOk(World)') =>
             \E c \in CallIds :
                 /\ Resumes(c, "adapter.connect")
                 /\ calls[c].value.state = "fulfilled"]_vars

(***************************************************************************)
(* Properties of the tool handlers                                         *)
(***************************************************************************)

\* C2: an execute-query request whose statement validateQuery rejects ends
\* at once with the failure payload of that rejection, has invoked no
\* method of the manager or of an adapter and has sent no statement text to
\* the driver; whatever reached an adapter or the driver had passed the
\* schema and validateQuery first, and was sent with the limit of the
\* request, 100 when it names none.
C2_RejectedNeverForwarded ==
    \A c \in CallIds :
        calls[c].op = "execute-query" =>
            /\ calls[c].validated \in {"ValidationError", "PermissionError"} =>
                  /\ calls[c].pc = "done"
                  /\ calls[c].result = calls[c].validated
                  /\ calls[c].response
                        = formatErrorResponse(
                              ErrorOf(calls[c].validated,
                                      validateQuery(calls[c].arg,
                                                    calls[c].mode).message,
                                      <<>>))
                  /\ calls[c].ops = <<>>
                  /\ calls[c].sent = ""
            /\ (calls[c].ops # <<>> \/ calls[c].sent # "") =>
                  /\ ExecuteQuerySchemaOk(calls[c].arg, calls[c].limit)
                  /\ calls[c].validated = "ok"
                  /\ validateQuery(calls[c].arg, calls[c].mode) = Ok
                  /\ calls[c].ops = << <<"executeQuery", calls[c].this>> >>
            /\ calls[c].sent # "" =>
                  calls[c].sent
                      = ModifiedQuery(adapters[calls[c].this].engine,
                                      calls[c].arg,
                                      IF calls[c].limit = Undefined THEN 100
                                      ELSE calls[c].limit.num)

\* C2 witness: a request made while a session was live was rejected by
\* validateQuery with PermissionError.
C2_Witness ==
    \E c \in CallIds :
        /\ calls[c].op = "execute-query"
        /\ calls[c].live
        /\ calls[c].validated = "PermissionError"
        /\ calls[c].pc = "done"
        /\ calls[c].response.isError

ToolOps ==
    {"connect-database", "disconnect", "connection-status", "list-databases",
     "switch-database", "list-tables", "describe-table", "execute-query"}

\* C32: every tool request ends with a payload returned: when input
\* parsing, the authorizer, the Connection Manager or an adapter threw, the
\* failure payload (isError set, success false, the message of what was
\* thrown); otherwise a success payload.  No error leaves a handler.
C32_ErrorsBecomePayloads ==
    \A c \in CallIds :
        calls[c].op # "none" =>
            /\ calls[c].op \in ToolOps
            /\ calls[c].pc # "unhandled"
            /\ calls[c].pc = "done" =>
                  /\ calls[c].response.returned
                  /\ calls[c].value.state = "rejected" =>
                        /\ calls[c].response.isError
                        /\ ~calls[c].response.success
                        /\ calls[c].response.error
                              = MessageOf(calls[c].value.reason)
                        /\ calls[c].response.error # ""
                  /\ calls[c].value.state # "rejected" =>
                        /\ ~calls[c].response.isError
                        /\ calls[c].response.success

\* C32 witness: a connect-database request has been answered with the
\* message of the adapter's ConnectionError and a list-tables request with
\* that of the manager's NotConnectedError.
C32_Witness ==
    /\ calls[1].op = "connect-database"
    /\ calls[1].result = "ConnectionError"
    /\ calls[1].response.isError
    /\ calls[1].response.error
          = "Failed to connect to MSSQL server: driver message"
    /\ calls[2].op = "list-tables"
    /\ calls[2].result = "NotConnectedError"
    /\ calls[2].response.isError
    /\ calls[2].response.error = NotConnectedError.message

(***************************************************************************)
(* Properties of process termination                                       *)
(***************************************************************************)

\* C33: on every termination path (SIGINT, SIGTERM, uncaught exception,
\* unhandled rejection, fatal startup error) connectionManager.disconnect has
\* been invoked and has completed when the process exits, and no live
\* session survives: no adapter is connected and no pool is open.
C33_TeardownBeforeExit ==
    \A c \in CallIds :
        calls[c].pc = "exited" =>
            /\ calls[c].result = "ok"
            /\ \A a \in CallIds : ~adapters[a].isConnected /\ pools[a] # "open"

(***************************************************************************)
(* Properties of validateQuery.  The statements they speak of are          *)
(* described here character by character, apart from the patterns above.   *)
(***************************************************************************)

Validated == outcome # NotValidated

\* The statement is empty or holds whitespace only.
Blank(s) == \A i \in 1..Len(s) : IsSpace(Ch(s, i))

\* The first word of a statement that is not blank: where it starts, where
\* it ends, and the word in upper case.
WordStart(s) == CHOOSE i \in 1..Len(s) : ~IsSpace(Ch(s, i)) /\ Blank(SubSeq(s, 1, i - 1))
WordEnd(s) ==
    CHOOSE j \in WordStart(s)..Len(s) :
        /\ \A k \in WordStart(s)..j : ~IsSpace(Ch(s, k))
        /\ j = Len(s) \/ IsSpace(Ch(s, j + 1))
\* s with its ASCII letters as capitals
RECURSIVE Capitals(_)
Capitals(s) ==
    IF s = "" THEN ""
    ELSE (IF Ch(s, 1) \in DOMAIN CapitalOf THEN CapitalOf[Ch(s, 1)] ELSE Ch(s, 1))
             \o Capitals(SubSeq(s, 2, Len(s)))
FirstWord(s) == Capitals(SubSeq(s, WordStart(s), WordEnd(s)))

\* The statement begins with one of the keywords, followed by whitespace and
\* then by more of the statement.
BeginsWithWord(s, keywords) ==
    /\ ~Blank(s)
    /\ FirstWord(s) \in keywords
    /\ ~Blank(SubSeq(s, WordEnd(s) + 1, Len(s)))

\* The statement begins with one of the keywords: the keyword ends the
\* statement or a character that cannot continue a word follows it.
BeginsWithKeyword(s, keywords) ==
    /\ ~Blank(s)
    /\ \E kw \in keywords :
          LET e == WordStart(s) + Len(kw) - 1
          IN  /\ e <= Len(s)
              /\ Capitals(SubSeq(s, WordStart(s), e)) = kw
              /\ e = Len(s) \/ ~IsWord(Ch(s, e + 1))

\* The statement begins with a WITH ... AS ( opener: WITH, whitespace, names
\* separated by commas or whitespace, whitespace, AS, and an opening bracket.
WithOpener(s) ==
    /\ BeginsWithWord(s, {"WITH"})
    /\ \E j \in (WordEnd(s) + 1)..(Len(s) - 1) :
          LET names == SubSeq(s, WordEnd(s) + 1, j - 1)
              after == SubSeq(s, j + 2, Len(s))
          IN  /\ Capitals(SubSeq(s, j, j + 1)) = "AS"
              /\ Len(names) >= 3
              /\ \A k \in 1..Len(names) :
                     Ch(names, k) \in WordChars \cup {","} \/ IsSpace(Ch(names, k))
              /\ IsSpace(Ch(names, 1)) /\ IsSpace(Ch(names, Len(names)))
              /\ ~Blank(after) /\ Ch(after, WordStart(after)) = "("

ReadOnlyWords == {"SELECT", "EXPLAIN", "SHOW", "DESCRIBE", "DESC"}
MutatingWords == {"INSERT", "UPDATE", "DELETE", "MERGE"}
DdlWords == {"CREATE", "ALTER", "DROP", "TRUNCATE", "GRANT", "REVOKE", "EXEC",
             "EXECUTE"}
ProcedureNames == {"XP_CMDSHELL", "SP_EXECUTESQL"}

\* The text of s from position i on begins with word, in either case.
TextAt(s, i, word) ==
    /\ i + Len(word) - 1 <= Len(s)
    /\ Capitals(SubSeq(s, i, i + Len(word) - 1)) = word

\* A separator followed, after optional whitespace, by a mutating or DDL
\* keyword; spaced: the keyword is itself followed by whitespace.
SeparatorThenKeyword(s, spaced) ==
    \E i \in 1..Len(s) :
        /\ Ch(s, i) = ";"
        /\ ~Blank(SubSeq(s, i + 1, Len(s)))
        /\ LET j == i + WordStart(SubSeq(s, i + 1, Len(s)))
           IN  \E kw \in MutatingWords \cup DdlWords :
                   /\ TextAt(s, j, kw)
                   /\ spaced => IsSpace(Ch(s, j + Len(kw)))

NamesProcedure(s) ==
    \E i \in 1..Len(s) : \E p \in ProcedureNames : TextAt(s, i, p)

\* The narrowest reading of "contains an injection indicator" and the
\* widest one.
InjectionIndicator(s) == SeparatorThenKeyword(s, TRUE) \/ NamesProcedure(s)
AnyInjectionIndicator(s) == SeparatorThenKeyword(s, FALSE) \/ NamesProcedure(s)

\* C3: in safe and in write mode validateQuery fails with ValidationError for
\* every statement that holds a separator followed by a mutating or DDL
\* keyword (INSERT, UPDATE, DELETE, MERGE, CREATE, ALTER, DROP, TRUNCATE,
\* GRANT, REVOKE, EXEC, EXECUTE) or that names a dangerous procedure,
\* whatever its prefix; in full mode the same statement is accepted.
C3_IndicatorsRejected ==
    (Validated /\ InjectionIndicator(Statement)) =>
        /\ outcome["safe"].kind = "ValidationError"
        /\ outcome["write"].kind = "ValidationError"
        /\ outcome["full"] = Ok

\* What C4 and C5 are about: a validated statement that is not blank and
\* holds no injection indicator, however widely that is read.
Plain == Validated /\ ~Blank(Statement) /\ ~AnyInjectionIndicator(Statement)

\* C4 as stated: in safe mode a non-empty statement without injection
\* indicator is accepted if and only if it begins with SELECT, EXPLAIN, SHOW,
\* DESCRIBE, DESC or a WITH ... AS ( opener, and is otherwise rejected with
\* PermissionError.
C4_SafeAcceptsKeywordPrefix ==
    Plain =>
        IF BeginsWithKeyword(Statement, ReadOnlyWords) \/ WithOpener(Statement)
        THEN outcome["safe"] = Ok
        ELSE outcome["safe"].kind = "PermissionError"

ReadOnlyStatement(s) == BeginsWithWord(s, ReadOnlyWords) \/ WithOpener(s)

\* C4 amended: in safe mode a non-empty statement without injection indicator
\* is accepted if and only if, leading whitespace aside, it begins with
\* SELECT, EXPLAIN, SHOW, DESCRIBE or DESC followed by whitespace and further
\* text, or with a WITH ... AS ( opener; every other such statement is
\* rejected with PermissionError.
C4_SafeAcceptsReadOnly ==
    Plain =>
        IF ReadOnlyStatement(Statement)
        THEN outcome["safe"] = Ok
        ELSE outcome["safe"].kind = "PermissionError"

\* C4 witness: a statement with a WITH ... AS ( opener was accepted in safe
\* mode.
C4_Witness == Plain /\ WithOpener(Statement) /\ outcome["safe"] = Ok

\* C5 as stated: in write mode a non-empty statement without injection
\* indicator is accepted if and only if it matches a safe-mode prefix or
\* begins with INSERT, UPDATE, DELETE or MERGE; a rejected statement that
\* begins with a DDL keyword gets the DDL message, any other the generic one.
C5_WriteAcceptsKeywordPrefix ==
    Plain =>
        IF \/ BeginsWithKeyword(Statement, ReadOnlyWords \cup MutatingWords)
           \/ WithOpener(Statement)
        THEN outcome["write"] = Ok
        ELSE IF BeginsWithKeyword(Statement, DdlWords)
        THEN outcome["write"] = Thrown("PermissionError", MsgDdl)
        ELSE outcome["write"] = Thrown("PermissionError", MsgWrite)

\* C5 amended: in write mode a non-empty statement without injection
\* indicator is accepted if and only if it is accepted in safe mode or begins
\* with INSERT, UPDATE, DELETE or MERGE followed by whitespace and further
\* text; a rejected statement that begins with CREATE, ALTER, DROP, TRUNCATE,
\* GRANT, REVOKE, EXEC or EXECUTE followed by whitespace and further text
\* gets the DDL message, every other rejected statement the generic one.
C5_WriteAcceptsReadOnlyAndMutating ==
    Plain =>
        IF ReadOnlyStatement(Statement) \/ BeginsWithWord(Statement, MutatingWords)
        THEN outcome["write"] = Ok
        ELSE IF BeginsWithWord(Statement, DdlWords)
        THEN outcome["write"] = Thrown("PermissionError", MsgDdl)
        ELSE outcome["write"] = Thrown("PermissionError", MsgWrite)

\* C5 witness: a MERGE statement was accepted in write mode and rejected in
\* safe mode.
C5_Witness ==
    /\ Plain
    /\ FirstWord(Statement) = "MERGE"
    /\ outcome["write"] = Ok
    /\ outcome["safe"].kind = "PermissionError"

\* C6: in full mode validateQuery accepts every statement that is not empty
\* or whitespace-only, whatever its prefix and whether or not it holds an
\* injection indicator.
C6_FullAcceptsAll == (Validated /\ ~Blank(Statement)) => outcome["full"] = Ok

\* C6 witness: a DDL statement holding an injection indicator is accepted in
\* full mode and rejected in write mode.
C6_Witness ==
    /\ Validated
    /\ InjectionIndicator(Statement)
    /\ BeginsWithWord(Statement, DdlWords)
    /\ outcome["full"] = Ok
    /\ outcome["write"].kind = "ValidationError"

\* C7: in every mode validateQuery fails with ValidationError, with the
\* empty-query message, on an empty or whitespace-only statement.
C7_BlankRejected ==
    (Validated /\ Blank(Statement)) =>
        \A m \in QueryModes : outcome[m] = Thrown("ValidationError", MsgEmpty)

\* C7 witness: a whitespace-only statement was validated.
C7_Witness == Validated /\ Blank(Statement) /\ Len(Statement) > 1

\* C8: a statement accepted in safe mode is accepted in write mode, and a
\* statement accepted in write mode is accepted in full mode.
C8_Monotone ==
    Validated =>
        /\ outcome["safe"] = Ok => outcome["write"] = Ok
        /\ outcome["write"] = Ok => outcome["full"] = Ok

\* C8 witness: a statement accepted in safe mode was validated.
C8_Witness == Validated /\ ~Blank(Statement) /\ outcome["safe"] = Ok

(***************************************************************************)
(* Properties of the adapters' executeQuery                                *)
(***************************************************************************)

\* The statement begins, trimmed and without regard to case, with SELECT.
BeginsWithSelect(s) == startsWith(Capitals(trim(s)), "SELECT")

\* The keyword stands in s as a word of its own, in either case.
HasWord(s, keyword) ==
    \E i \in 1..Len(s) :
        /\ LitAt(s, i, keyword)
        /\ ~IsWord(Ch(s, i - 1))
        /\ ~IsWord(Ch(s, i + Len(keyword)))

\* The statement has a row-limiting clause of the dialect.
HasLimitingClause(engine, s) ==
    IF engine = "mssql" THEN HasWord(s, "TOP") \/ HasWord(s, "OFFSET")
    ELSE HasWord(s, "LIMIT")

\* The keyword stands in s followed by whitespace and the number n.
KeywordWithNumber(s, keyword, n) ==
    \E i \in 1..Len(s) :
        /\ LitAt(s, i, keyword)
        /\ ~IsWord(Ch(s, i - 1))
        /\ LET j == SkipSpaces(s, i + Len(keyword))
               k == j + Len(ToString(n))
           IN  /\ j > i + Len(keyword)
               /\ SubSeq(s, j, k - 1) = ToString(n)
               /\ ~IsWord(Ch(s, k))

\* The statement has the dialect's limiting clause with the limit n.
HasClauseWithLimit(engine, s, n) ==
    KeywordWithNumber(s, IF engine = "mssql" THEN "TOP" ELSE "LIMIT", n)

\* executeQuery gave the driver a statement.
Sent == execution.reached

\* C17: on either adapter, for a statement that begins with SELECT and has
\* no row-limiting clause of the dialect (TOP or OFFSET for MSSQL, LIMIT
\* for PostgreSQL), executeQuery sends the driver a statement holding the
\* dialect's limiting clause with the caller's limit, 100 when the limit is
\* omitted; a statement that has such a clause is sent unmodified.
C17_RowLimitRewrite ==
    Sent =>
        /\ (BeginsWithSelect(execution.query)
              /\ ~HasLimitingClause(execution.engine, execution.query)) =>
              HasClauseWithLimit(execution.engine, execution.sent,
                                 IF execution.limit = <<>> THEN 100
                                 ELSE execution.limit[1])
        /\ HasLimitingClause(execution.engine, execution.query) =>
              execution.sent = execution.query

\* The rows the driver returned, and the modification count it reported.
DriverRows(engine, result) ==
    IF engine = "mssql"
    THEN IF result.hasRecordset THEN result.recordset ELSE <<>>
    ELSE result.rows
DriverCount(engine, result) ==
    IF engine = "mssql"
    THEN IF result.rowsAffected = <<>> THEN <<>> ELSE <<result.rowsAffected[1]>>
    ELSE result.rowCount

\* C18: on either adapter, a QueryResult returned by executeQuery has
\* rowCount equal to the number of its rows; when the driver returned no
\* rows, columns and rows are both empty and affectedRows is the
\* modification count the driver reported, absent when it reported none.
C18_QueryResultShape ==
    execution.kind = "ok" =>
        /\ execution.result.rowCount = Len(execution.result.rows)
        /\ DriverRows(execution.engine, execution.driver) = <<>> =>
              /\ execution.result.columns = <<>>
              /\ execution.result.rows = <<>>
              /\ execution.result.affectedRows
                    = DriverCount(execution.engine, execution.driver)

\* The dialect's limiting clause as the rewrite writes it.
ClauseText(engine, n) ==
    IF engine = "mssql" THEN "TOP " \o ToString(n) \o " "
    ELSE " LIMIT " \o ToString(n)

\* sent is base with the text clause put in at one place and nothing else
\* changed.
OnlyAdds(base, clause, sent) ==
    \E i \in 0..Len(base) :
        sent = SubSeq(base, 1, i) \o clause \o SubSeq(base, i + 1, Len(base))

\* The limit executeQuery works with.
LimitUsed == IF execution.limit = <<>> THEN 100 ELSE execution.limit[1]

\* C31 as stated: executeQuery sends the driver a statement byte-identical
\* to its input whenever the trimmed, upper-cased input does not begin with
\* SELECT; a statement beginning with SELECT is sent either unchanged or
\* with the row-limiting clause added and nothing else changed.
C31_OnlyClauseAdded ==
    Sent =>
        /\ ~BeginsWithSelect(execution.query) =>
              execution.sent = execution.query
        /\ (BeginsWithSelect(execution.query)
              /\ execution.sent # execution.query) =>
              OnlyAdds(execution.query,
                       ClauseText(execution.engine, LimitUsed), execution.sent)

\* C31 amended: a statement that does not begin with SELECT is sent
\* byte-identical; a statement beginning with SELECT is sent unchanged, or
\* by MSSQL with "TOP <limit> " put in and nothing else changed, or by
\* PostgreSQL as its trimmed text without one final semicolon, followed by
\* " LIMIT <limit>".
C31_NonSelectUntouched ==
    Sent =>
        /\ ~BeginsWithSelect(execution.query) =>
              execution.sent = execution.query
        /\ (BeginsWithSelect(execution.query)
              /\ execution.sent # execution.query) =>
              IF execution.engine = "mssql"
              THEN OnlyAdds(execution.query, ClauseText("mssql", LimitUsed),
                            execution.sent)
              ELSE LET t == trim(execution.query)
                       base == IF Ch(t, Len(t)) = ";"
                               THEN SubSeq(t, 1, Len(t) - 1) ELSE t
                   IN  execution.sent = base \o ClauseText("postgres", LimitUsed)

\* C31 witness: an UPDATE reached the driver as it was written.
C31_Witness ==
    /\ Sent
    /\ startsWith(execution.query, "UPDATE")
    /\ Len(execution.query) > 6
    /\ execution.sent = execution.query

\* C36: the row-limit rewrite is idempotent for both adapters: for every
\* statement beginning with SELECT and every limit, the adapter's rewrite
\* applied to the statement it sent yields that statement again.
C36_RewriteIdempotent ==
    (Sent /\ BeginsWithSelect(execution.query)) =>
        ModifiedQuery(execution.engine, execution.sent, LimitUsed)
            = execution.sent

(***************************************************************************)
(* Properties of the identifier codec                                      *)
(***************************************************************************)

Escaped == identifier # NotEscaped

\* The identifier is wrapped in a pair of brackets, double quotes or single
\* quotes; the identifier with one such layer removed.
Wrapped(x) ==
    /\ Len(x) >= 2
    /\ <<Ch(x, 1), Ch(x, Len(x))>>
           \in {<<"[", "]">>, <<"\"", "\"">>, <<"'", "'">>}
Unwrapped(x) == IF Wrapped(x) THEN SubSeq(x, 2, Len(x) - 1) ELSE x

\* C19: sanitizeIdentifier(x) strips one layer of wrapping delimiters from x
\* and returns the remainder if and only if the remainder matches
\* ^[A-Za-z0-9_][A-Za-z0-9_.]*$; for every other x it throws
\* ValidationError.  Whatever it returns holds word characters and dots only.
C19_SanitizeIdentifier ==
    Escaped =>
        LET remainder == Unwrapped(Join(typed))
        IN  /\ IdentifierPattern(remainder) =>
                  identifier.sanitized = Returned(remainder)
            /\ ~IdentifierPattern(remainder) =>
                  identifier.sanitized.kind = "ValidationError"
            /\ identifier.sanitized.kind = "ok" =>
                  \A i \in 1..Len(identifier.sanitized.value) :
                      \/ IsWord(Ch(identifier.sanitized.value, i))
                      \/ Ch(identifier.sanitized.value, i) = "."

\* C20: escapeIdentifier(x, engine) is sanitizeIdentifier(x) split on ".",
\* each segment in square brackets for mssql and in double quotes for
\* postgres, joined with "."; it throws ValidationError exactly when
\* sanitizeIdentifier(x) throws.
C20_EscapeIdentifier ==
    Escaped =>
        \A e \in Engines :
            LET segments == split(identifier.sanitized.value, ".")
                quoted == [i \in 1..Len(segments) |->
                              IF e = "mssql" THEN "[" \o segments[i] \o "]"
                              ELSE "\"" \o segments[i] \o "\""]
            IN  /\ identifier.sanitized.kind = "ok" =>
                      identifier.escaped[e] = Returned(join(quoted, "."))
                /\ identifier.sanitized.kind # "ok" =>
                      /\ identifier.sanitized.kind = "ValidationError"
                      /\ identifier.escaped[e].kind = "ValidationError"

\* C20 witness: an identifier of two segments wrapped in brackets was
\* stripped and escaped segment by segment.
C20_Witness ==
    /\ Escaped
    /\ identifier.sanitized.kind = "ok"
    /\ typed[1] = "[" /\ typed[Len(typed)] = "]"
    /\ Len(split(identifier.sanitized.value, ".")) = 2
    /\ \A i \in 1..2 : split(identifier.sanitized.value, ".")[i] # ""
    /\ identifier.escaped["mssql"].kind = "ok"
    /\ identifier.escaped["postgres"].kind = "ok"
    /\ identifier.escaped["mssql"] # identifier.escaped["postgres"]

(***************************************************************************)
(* Properties of the configuration                                         *)
(***************************************************************************)

\* The setting is the word, letter case apart
IsWordIgnoringCase(setting, word) ==
    /\ setting # Undefined
    /\ Len(setting.string) = Len(word)
    /\ \A i \in 1..Len(word) :
           \/ Ch(setting.string, i) = Ch(word, i)
           \/ Ch(setting.string, i) = CapitalOf[Ch(word, i)]

\* C22: the query mode loaded from the environment setting is 'write' or
\* 'full' exactly when the setting equals that word case-insensitively, and
\* is 'safe' for every other value, including an absent setting and the
\* empty string.
C22_ModeFromSetting ==
    configInstance # NULL =>
        /\ configInstance.queryMode = "write"
               <=> IsWordIgnoringCase(environment, "write")
        /\ configInstance.queryMode = "full"
               <=> IsWordIgnoringCase(environment, "full")
        /\ configInstance.queryMode = "safe" <=>
               /\ ~IsWordIgnoringCase(environment, "write")
               /\ ~IsWordIgnoringCase(environment, "full")
        /\ environment \in {Undefined, Str("")} =>
               configInstance.queryMode = "safe"

C22_Witness ==
    /\ configInstance = [queryMode |-> "write"]
    /\ environment # Str("write")

\* C23: once the configuration has been loaded by the first getConfig call,
\* which main() makes, no step changes it: not a tool request of any kind,
\* not the driver, not a change of the environment setting.  Every
\* execute-query request that passes its schema is authorized under the
\* query mode loaded then, and every connection-status request reports it.
C23_ModeFixedOnceLoaded ==
    [][configInstance # NULL =>
          /\ configInstance' = configInstance
          /\ \A c \in CallIds :
                 /\ (calls[c].op = "none" /\ calls'[c].op = "execute-query"
                       /\ ExecuteQuerySchemaOk(calls'[c].arg,
                                               calls'[c].limit)) =>
                       /\ calls'[c].mode = configInstance.queryMode
                       /\ calls'[c].validated =
                              validateQuery(calls'[c].arg,
                                            configInstance.queryMode).kind
                 /\ (calls[c].op = "none"
                       /\ calls'[c].op = "connection-status") =>
                       /\ calls'[c].mode = configInstance.queryMode
                       /\ calls'[c].response.data.queryMode
                              = configInstance.queryMode]_vars

\* C23 witness: the environment setting has changed since main() loaded the
\* configuration, and a request was refused under the loaded mode that the
\* mode of the present setting would allow.
C23_Witness ==
    /\ configInstance # NULL
    /\ configInstance # loadConfig(environment)
    /\ \E c \in CallIds :
           /\ calls[c].op = "execute-query"
           /\ calls[c].validated = "PermissionError"
           /\ validateQuery(calls[c].arg,
                            loadConfig(environment).queryMode).kind = "ok"

(***************************************************************************)
(* Properties of an adapter on its own                                     *)
(***************************************************************************)

\* Call c arrives in this step as method op of adapter a
Arrives(c, a) ==
    /\ calls[c].op = "none"
    /\ calls'[c].op # "none"
    /\ calls'[c].ops # <<>>
    /\ calls'[c].ops[1][2] = a

\* C24: on an adapter of either engine that is not connected (never
\* connected, or disconnected), each of switchDatabase, listDatabases,
\* listTables, describeTable and executeQuery fails with NotConnectedError
\* before touching the pool or sending anything to the driver.
C24_NotConnectedRejected ==
    [][\A c, a \in CallIds :
          (Arrives(c, a) /\ ~adapters[a].isConnected
              /\ calls'[c].op \in CatalogOps \cup {"switchDatabase", "executeQuery"}) =>
              /\ Settles(c)
              /\ calls'[c].value = Rejected(NotConnectedError)
              /\ calls'[c].ops = << <<calls'[c].op, a>> >>
              /\ calls'[c].sent = ""
              /\ pools' = pools
              /\ adapters' = adapters]_vars

C24_Witness ==
    /\ pools[1] = "closed"
    /\ calls[2].op = "adapter.disconnect"
    /\ calls[2].result = "ok"
    /\ calls[3].op = "switchDatabase"
    /\ calls[3].result = "NotConnectedError"

\* C25: if the driver fails during connect on either adapter, the adapter
\* throws ConnectionError, isConnected and currentDatabase are as they were
\* (false and null on a fresh adapter), and the adapter is left holding no
\* pool: a pool created during the attempt has been released.
C25_ConnectFailureReleasesPool ==
    [][\A c \in CallIds :
          (calls[c].op = "adapter.connect" /\ Resumes(c, "adapter.connect")
              /\ calls[c].value.state = "rejected") =>
              LET a == calls[c].this
              IN  /\ Outcome(calls'[c].value) = "ConnectionError"
                  /\ calls'[c].value.reason.originalError
                        = OriginalOf(calls[c].value.reason)
                  /\ adapters'[a].isConnected = adapters[a].isConnected
                  /\ adapters'[a].currentDatabase = adapters[a].currentDatabase
                  /\ calls[c].pool # 0 =>
                         /\ pools'[calls[c].pool] = "closed"
                         /\ adapters'[a].pool # calls[c].pool]_vars

\* C26: when disconnect returns on either adapter, isConnected = false,
\* currentDatabase = null, the stored config is null, and the pool the
\* adapter held has been closed and cleared; calling disconnect again, or
\* on a never-connected adapter, resolves without error and does not close
\* any pool a second time.
C26_AdapterDisconnect ==
    [][\A c, a \in CallIds :
          /\ (calls'[c].op = "adapter.disconnect" /\ Settles(c)
                  /\ calls'[c].value.state = "fulfilled"
                  /\ calls'[c].this = a) =>
                  /\ adapters'[a] = NewAdapter(adapters[a].engine)
                  /\ adapters[a].pool # 0 =>
                         pools'[adapters[a].pool] = "closed"
          /\ (Arrives(c, a) /\ calls'[c].op = "adapter.disconnect"
                  /\ adapters[a] = NewAdapter(adapters[a].engine)) =>
                  /\ Settles(c)
                  /\ calls'[c].value = Fulfilled
                  /\ pools' = pools
                  /\ adapters' = adapters]_vars

\* C28: MssqlAdapter.switchDatabase(d) keeps the same physical session: no
\* step of it closes or replaces the pool; when the USE statement has
\* succeeded it sets currentDatabase = d and nothing else, and returns; when
\* it has failed, or could not be given to the pool, it throws QueryError
\* and leaves currentDatabase, isConnected, the stored config and the pool
\* unchanged.
C28_MssqlSwitchKeepsSession ==
    [][\A c, a \in CallIds :
          (calls'[c].op = "switchDatabase" /\ calls'[c] # calls[c]
              /\ calls'[c].this = a /\ adapters[a].engine = "mssql") =>
              /\ pools' = pools
              /\ adapters'[a].pool = adapters[a].pool
              /\ Range(calls'[c].ops) = {<<"switchDatabase", a>>}
              /\ IF Resumes(c, "adapter.switchDatabase")
                       /\ calls[c].value.state = "fulfilled"
                 THEN /\ adapters' = [adapters EXCEPT
                             ![a].currentDatabase = Str(calls[c].arg)]
                      /\ Settles(c)
                      /\ calls'[c].value = Fulfilled
                 ELSE adapters' = adapters
              /\ (Resumes(c, "adapter.switchDatabase")
                    /\ calls[c].value.state = "rejected") =>
                    /\ Settles(c)
                    /\ Outcome(calls'[c].value) = "QueryError"
                    /\ calls'[c].value.reason.message
                          = "Failed to switch to database '" \o calls[c].arg
                                \o "': " \o MessageOf(calls[c].value.reason)
              /\ (Arrives(c, a) /\ adapters[a].isConnected) =>
                    \/ calls'[c].pc = "querying"
                          /\ calls'[c].sent = "USE [" \o calls'[c].arg \o "]"
                    \/ Settles(c) /\ Outcome(calls'[c].value) = "QueryError"]_vars

C28_Witness ==
    /\ adapters[1].engine = "mssql"
    /\ adapters[1].isConnected
    /\ pools[1] = "open"
    /\ adapters[1].pool = 1
    /\ calls[2].op = "switchDatabase"
    /\ calls[2].result = "ok"
    /\ adapters[1].currentDatabase = Str(calls[2].arg)
    /\ calls[3].op = "switchDatabase"
    /\ calls[3].result = "QueryError"

\* C29: a database name that an adapter interpolates into generated SQL (the
\* USE statement of MssqlAdapter.switchDatabase) has first passed through the
\* identifier codec: a name with characters other than word characters and
\* dots is rejected with ValidationError, and no generated statement
\* containing it is sent to the driver.
C29_InterpolatedNamesSanitized ==
    \A c \in CallIds :
        (calls[c].op = "switchDatabase"
            /\ sanitizeIdentifier(calls[c].arg).kind # "ok") =>
            /\ calls[c].sent = ""
            /\ calls[c].result \in {"none", "NotConnectedError", "ValidationError"}

\* The driver has failed on the statement or catalog query of call c, and
\* the adapter's method resumes in this step.
QueryFails(c) ==
    /\ calls[c].op \in CatalogOps \cup {"executeQuery"}
    /\ Resumes(c, "adapter.query")
    /\ calls[c].value.state = "rejected"

\* C30 as stated: when the driver fails while executing a statement or
\* catalog query (executeQuery, listDatabases, listTables, describeTable),
\* the adapter throws QueryError whose message contains the driver's message
\* and whose originalError is what the driver failed with, and the adapter's
\* isConnected, currentDatabase, stored config and pool are unchanged by the
\* failure.
C30_DriverFailureWrapped ==
    [][\A c \in CallIds :
          QueryFails(c) =>
              /\ Outcome(calls'[c].value) = "QueryError"
              /\ includes(calls'[c].value.reason.message,
                          MessageOf(calls[c].value.reason))
              /\ calls'[c].value.reason.originalError
                    = <<calls[c].value.reason>>
              /\ adapters' = adapters
              /\ pools' = pools]_vars

\* C30 amended: the adapter throws QueryError whose message ends with the
\* driver's message (the text of what the driver failed with, when that is
\* no Error) and whose originalError is what the driver failed with when
\* that is an Error, and undefined when it is not; neither the driver's
\* failure nor the adapter's throw changes the adapter's isConnected,
\* currentDatabase, stored config or pool.
C30_DriverFailureWrappedWhenError ==
    [][\A c \in CallIds :
          /\ QueryFails(c) =>
                LET failure == calls[c].value.reason
                    thrown == calls'[c].value.reason
                    n == Len(MessageOf(failure))
                IN  /\ Settles(c)
                    /\ Outcome(calls'[c].value) = "QueryError"
                    /\ MessageOf(failure) # ""
                    /\ Len(thrown.message) >= n
                    /\ SubSeq(thrown.message, Len(thrown.message) - n + 1,
                              Len(thrown.message)) = MessageOf(failure)
                    /\ IsError(failure) => thrown.originalError = <<failure>>
                    /\ ~IsError(failure) => thrown.originalError = <<>>
                    /\ adapters' = adapters
                    /\ pools' = pools
          /\ (calls[c].op \in CatalogOps \cup {"executeQuery"}
                /\ calls[c].pc = "querying" /\ calls'[c].pc # "querying") =>
                /\ adapters' = adapters
                /\ pools' = pools]_vars

\* C30 witness: describeTable has thrown a QueryError that carries the text
\* the driver failed with and no originalError, and executeQuery one that
\* carries the driver's Error; the adapter is connected as before.
C30_Witness ==
    /\ calls[2].op = "describeTable"
    /\ calls[2].sent # ""
    /\ calls[2].result = "QueryError"
    /\ calls[2].value.reason.message
          = "Failed to describe table 'public.t': driver text"
    /\ calls[2].value.reason.originalError = <<>>
    /\ calls[3].op = "executeQuery"
    /\ calls[3].result = "QueryError"
    /\ calls[3].value.reason.originalError
          = <<ErrorOf("DriverError", "driver message", <<>>)>>
    /\ adapters[1].isConnected
    /\ pools[adapters[1].pool] = "open"

\* C37: for every adapter instance, in every reachable state including those
\* reached when disconnect or switchDatabase interleaves with an in-flight
\* connect on the same instance, isConnected = true implies that the pool
\* is non-null and that currentDatabase and the stored config are non-null.
\* Stated of the states in which a pool opened by a connect is still open.
C37_ConnectedHasPool ==
    \A a \in CallIds :
        (adapters[a].isConnected /\ \E p \in CallIds : pools[p] = "open") =>
            /\ adapters[a].pool # 0
            /\ adapters[a].currentDatabase # NULL
            /\ adapters[a].config # NULL

====
